---- MODULE Spec2Model ----
(***************************************************************************)
(* Card workspace (script.js).  The file holds three variants of the same  *)
(* application.  This module models the z-index layered variant with       *)
(* persistence (appConfig, lines 1-643) under Spec, and under LoadSpec     *)
(* when the page starts on a stored item; the freeform variant that moves  *)
(* cards in animation frames (lines 665-1551) under FreeSpec; and the      *)
(* grid-snapping variant (CONFIG with gridSize, lines 1552-2314) under     *)
(* GridSpec.                                                               *)
(*                                                                         *)
(* Coordinates are kept in units of 1/Scale pixel, so that fractional      *)
(* pixel values (Math.random() positions, fractional bounding boxes) and   *)
(* the truncation done by parseInt are representable.                      *)
(***************************************************************************)
EXTENDS Integers, Sequences, FiniteSets, TLC

\* ------------------------------------------------------------------ bounds
Scale == 2          \* coordinate units per pixel
MaxEvents == 5      \* state-changing events (handler runs) followed in one run
GridMaxEvents == 7  \* the same, for the grid variant
MaxCards == 5       \* cards held by the store at once
MaxTimers == 4      \* pending setTimeout callbacks
MaxWriteFailures == 1  \* localStorage.setItem calls that throw in one run

\* ------------------------------------------------------- program constants
CardWidth == 300
CardMaxHeight == 400
RandomTopMargin == 50
RemoveDelay == 300
ResetDelay == 350
SeedCount == 4

Px(n) == n * Scale

Min(a, b) == IF a < b THEN a ELSE b

SetMin(S) == CHOOSE x \in S : \A y \in S : x <= y

Range(s) == {s[i] : i \in 1..Len(s)}

\* parseInt("<v>px"): the integer part of the number, truncated towards zero
parseInt(v) == IF v >= 0 THEN (v \div Scale) * Scale ELSE -(((-v) \div Scale) * Scale)

\* ------------------------------------------------------------ input sets
\* window.innerWidth x window.innerHeight, in pixels
Viewports == {<<1000, 800>>, <<600, 450>>}

InitialViewport == <<1000, 800>>

\* pointer positions of mousemove events (a drag keeps delivering them
\* outside the window, so they are not confined to the viewport)
Points == {<<Px(10), Px(20)>>, <<Px(400) + 1, Px(300)>>}

\* clientX - cardRect.left, clientY - cardRect.top for a press inside the card
GrabOffsets == {<<Px(40), Px(30)>>}

\* values of Math.random(), in eighths
Randoms == {1}

\* what prompt() returns: null on cancel, else the text typed
PromptResults == {[cancelled |-> TRUE, text |-> ""],
                  [cancelled |-> FALSE, text |-> ""],
                  [cancelled |-> FALSE, text |-> "X"]}

Falsy(r) == r.cancelled \/ r.text = ""

\* Date.now() values; ids card-1 .. card-4 belong to the seed cards
Timestamps == {5, 6}

NoElement == 0

\* ------------------------------------------------------------- the store
DefaultCards ==
  << [id |-> 1, title |-> "How to Use?", content |-> "Click and drag",
      position |-> <<Px(100), Px(100)>>, zIndex |-> 1],
     [id |-> 2, title |-> "What matters now?", content |-> "Identify",
      position |-> <<Px(450), Px(150)>>, zIndex |-> 2],
     [id |-> 3, title |-> "Idea in progress!", content |-> "What if",
      position |-> <<Px(200), Px(300)>>, zIndex |-> 3],
     [id |-> 4, title |-> "Looped Thought!", content |-> "Recurring",
      position |-> <<Px(500), Px(350)>>, zIndex |-> 4] >>

IdleDrag == [isDragging |-> FALSE, draggedCard |-> NoElement, mouseOffset |-> <<0, 0>>]

NoRelease == [card |-> 0, inStore |-> FALSE, saved |-> FALSE]

NoMove == [moved |-> FALSE, p |-> <<0, 0>>, resized |-> FALSE]

\* the appConfig literal the script starts with
InitialConfig == [cards |-> DefaultCards, maxZIndex |-> 4]

VARIABLES
  appConfig,     \* [cards, maxZIndex]
  dragState,     \* [isDragging, draggedCard, mouseOffset]
  elements,      \* element handle -> [id, left, top, zIndex]
  body,          \* handles of the .info-card children of document.body, in order
  timers,        \* pending setTimeout callbacks, in registration order
  localStorage,  \* the "cardWorkspace" item: [present, text]
  viewport,      \* <<window.innerWidth, window.innerHeight>>
  now,           \* the latest value Date.now() returned
  allocated,     \* history: values handed out by ++maxZIndex, how many of
                 \* them precede the last completed reset, and whether that
                 \* reset ran during the drag that is in progress
  lastRelease,   \* history: the last stopDrag that ended a drag: the card's id,
                 \* whether the store held it, whether the save succeeded
  budget,        \* history: [events, failures, uncaught], the state-changing
                 \* events, the failed storage writes and the exceptions that
                 \* left a handler so far
  CONFIG,        \* grid and freeform variants: [cardData]
  gridDragState, \* grid variant: dragState
  gridElements,  \* grid variant: element handle -> [id, parent, dragging, free, style]
  gridOrder,     \* grid variant: attached card elements, oldest appendChild first
  dropTargets,   \* grid variant: cells carrying the class drop-target
  lastDrop,      \* grid variant, history: what the last stopDragging was given and did
  frames,        \* freeform variant: pending requestAnimationFrame callbacks
  resizeInstalled, \* layered variant: initializeApp has added its resize listener
  lastMove,      \* layered variant, history: the pointer of the last handleDrag of
                 \* the drag in progress, and whether a resize ran since
  retired        \* layered variant, history: the ids that left the store since the
                 \* page was loaded

vars == <<appConfig, dragState, elements, body, timers, localStorage, viewport, now,
          allocated, lastRelease, budget, CONFIG, gridDragState, gridElements, gridOrder,
          dropTargets, lastDrop, frames, resizeInstalled, lastMove, retired>>

\* what the grid variant leaves alone
layerVars == <<appConfig, dragState, elements, body, timers, localStorage, allocated,
               lastRelease, frames, resizeInstalled, lastMove, retired>>

\* what the handlers of the layered variant leave alone
gridVars == <<CONFIG, gridDragState, gridElements, gridOrder, dropTargets, lastDrop, frames,
              resizeInstalled, retired>>

\* ------------------------------------------------------------- JSON text
\* JSON.stringify of the number n / d: its sign, integer digits and fraction
stringifyNumber(n, d) ==
  LET m == IF n < 0 THEN -n ELSE n
  IN [kind |-> "number", negative |-> n < 0, whole |-> m \div d, fraction |-> <<m % d, d>>]

\* JSON.parse of a number text, read without its fraction digits
parseNumberWhole(text, d) ==
  LET m == text.whole * d
  IN IF text.negative THEN -m ELSE m

\* JSON.parse of a number text, in units of 1 / d
parseNumber(text, d) ==
  LET m == text.whole * d + (text.fraction[1] * d) \div text.fraction[2]
  IN IF text.negative THEN -m ELSE m

stringifyString(s) == [kind |-> "string", chars |-> s]

parseString(text) == text.chars

\* a key the object does not have
Undefined == [kind |-> "undefined"]

\* the position of a record that has no key position
MissingPosition == <<>>

\* reading cardData.position.x of the record throws a TypeError
Malformed(card) == card.position = MissingPosition

\* JSON.stringify of one card record; a key whose value is undefined is left out
stringifyCard(card) ==
  [kind |-> "object",
   id |-> stringifyString(card.id),
   title |-> stringifyString(card.title),
   content |-> stringifyString(card.content),
   position |-> IF Malformed(card) THEN Undefined
                ELSE [kind |-> "object",
                      x |-> stringifyNumber(card.position[1], Scale),
                      y |-> stringifyNumber(card.position[2], Scale)],
   zIndex |-> stringifyNumber(card.zIndex, 1)]

\* JSON.parse of one card object
parseCard(text) ==
  [id |-> parseString(text.id),
   title |-> parseString(text.title),
   content |-> parseString(text.content),
   position |-> IF text.position.kind # "object" THEN MissingPosition
                ELSE <<parseNumber(text.position.x, Scale), parseNumber(text.position.y, Scale)>>,
   zIndex |-> parseNumber(text.zIndex, 1)]

\* the object saveToStorage builds at time t
workspaceData(cfg, t) == [cards |-> cfg.cards, maxZIndex |-> cfg.maxZIndex, timestamp |-> t]

\* JSON.stringify(workspaceData)
JSONstringify(data) ==
  [kind |-> "object",
   cards |-> [kind |-> "array",
              items |-> [i \in 1..Len(data.cards) |-> stringifyCard(data.cards[i])]],
   maxZIndex |-> stringifyNumber(data.maxZIndex, 1),
   timestamp |-> stringifyNumber(data.timestamp, 1)]

\* the "cardWorkspace" item of localStorage: absent, or the text last written
EmptyStorage == [present |-> FALSE, text |-> Undefined]

\* saveToStorage with the catch removed: the exception of a failed write
\* leaves the function
saveToStorageUncaught(store, cfg, t, writeOk) ==
  IF writeOk
  THEN [store |-> [present |-> TRUE, text |-> JSONstringify(workspaceData(cfg, t))],
        thrown |-> FALSE]
  ELSE [store |-> store, thrown |-> TRUE]

\* saveToStorage: localStorage.setItem of the serialized workspace; a write
\* that throws (quota) is caught and logged, and leaves the item as it was
saveToStorage(store, cfg, t, writeOk) ==
  IF writeOk
  THEN [store |-> [present |-> TRUE, text |-> JSONstringify(workspaceData(cfg, t))],
        thrown |-> FALSE]
  ELSE [store |-> store, thrown |-> FALSE]

\* the stored counter ignored: the counter is 4 after every load
maxZIndexAlways4(text) == 4

\* workspaceData.maxZIndex || 4
maxZIndexOr4(text) ==
  IF text.kind = "number" /\ parseNumber(text, 1) # 0 THEN parseNumber(text, 1) ELSE 4

\* the records of a decoded value: those of a sequence, none otherwise
recordsOf(text) ==
  IF text.kind = "array" THEN [i \in 1..Len(text.items) |-> parseCard(text.items[i])]
  ELSE <<>>

\* loadFromStorage without the test of workspaceData.cards: whatever the
\* decoded object holds under the key is adopted
loadFromStorageUntested(cfg, item) ==
  IF ~item.present THEN [adopted |-> FALSE, cfg |-> cfg]
  ELSE IF item.text.kind # "object" THEN [adopted |-> FALSE, cfg |-> cfg]
  ELSE [adopted |-> TRUE,
        cfg |-> [cards |-> recordsOf(item.text.cards),
                 maxZIndex |-> maxZIndexOr4(item.text.maxZIndex)]]

\* loadFromStorage that adopts the saved cards only when there are some
loadFromStorageNonEmpty(cfg, item) ==
  IF ~item.present THEN [adopted |-> FALSE, cfg |-> cfg]
  ELSE IF item.text.kind # "object" THEN [adopted |-> FALSE, cfg |-> cfg]
  ELSE IF item.text.cards.kind # "array" THEN [adopted |-> FALSE, cfg |-> cfg]
  ELSE IF Len(item.text.cards.items) = 0 THEN [adopted |-> FALSE, cfg |-> cfg]
  ELSE [adopted |-> TRUE,
        cfg |-> [cards |-> recordsOf(item.text.cards),
                 maxZIndex |-> maxZIndexOr4(item.text.maxZIndex)]]

\* the try block of loadFromStorage up to the assignments: what appConfig
\* becomes, and whether the saved cards were assigned to it; the exception
\* createAllCards raises after the assignments is caught and undoes nothing
loadFromStorage(cfg, item) ==
  IF ~item.present THEN [adopted |-> FALSE, cfg |-> cfg]
  ELSE IF item.text.kind # "object" THEN [adopted |-> FALSE, cfg |-> cfg]
  ELSE IF item.text.cards.kind # "array" THEN [adopted |-> FALSE, cfg |-> cfg]
  ELSE [adopted |-> TRUE,
        cfg |-> [cards |-> recordsOf(item.text.cards),
                 maxZIndex |-> maxZIndexOr4(item.text.maxZIndex)]]

\* one more event, within the budget of the run
Event ==
  /\ budget.events < MaxEvents
  /\ budget' = [budget EXCEPT !.events = @ + 1]

\* one more event, whose storage write succeeds (writeOk) or throws
SavingEvent(writeOk) ==
  /\ budget.events < MaxEvents
  /\ writeOk \/ budget.failures < MaxWriteFailures
  /\ budget' = [events |-> budget.events + 1,
                failures |-> budget.failures + (IF writeOk THEN 0 ELSE 1),
                uncaught |-> budget.uncaught
                  + (IF saveToStorage(localStorage, appConfig, now, writeOk).thrown
                     THEN 1 ELSE 0)]

\* a handler run that returns early and changes nothing, while the run is
\* still followed
NoEffect == budget.events < MaxEvents /\ UNCHANGED vars

GridNoEffect == budget.events < GridMaxEvents /\ UNCHANGED vars

\* ids of the cards the user presses and removes: seed cards, and every
\* added card
TouchedSeeds == {1}

GridTouchedSeeds == {1, 2}

AddedIds == Timestamps

\* one more event of the grid variant
GridEvent ==
  /\ budget.events < GridMaxEvents
  /\ budget' = [budget EXCEPT !.events = @ + 1]

\* Array.prototype.find / findIndex by id: the first match, 0 when none
FindIndex(cards, cardId) ==
  IF \E i \in 1..Len(cards) : cards[i].id = cardId
  THEN SetMin({i \in 1..Len(cards) : cards[i].id = cardId})
  ELSE 0

\* document.getElementById: the first attached element with the id
getElementById(els, kids, cardId) ==
  IF \E i \in 1..Len(kids) : els[kids[i]].id = cardId
  THEN kids[SetMin({i \in 1..Len(kids) : els[kids[i]].id = cardId})]
  ELSE NoElement

NewHandle(els) == SetMin({h \in 1..(Cardinality(DOMAIN els) + 1) : h \notin DOMAIN els})

\* createCard: a new element styled from the card record, appended to body
createCard(dom, cardData) ==
  LET h == NewHandle(dom.els)
      el == [id |-> cardData.id, left |-> cardData.position[1],
             top |-> cardData.position[2], zIndex |-> cardData.zIndex]
  IN [els |-> [x \in DOMAIN dom.els \cup {h} |-> IF x = h THEN el ELSE dom.els[x]],
      kids |-> Append(dom.kids, h)]

\* the forEach of createAllCards from record i on; createCard throws at a
\* record without a position, before it appends the element, and the
\* exception ends the loop
RECURSIVE createAllCardsFrom(_, _, _)
createAllCardsFrom(dom, cards, i) ==
  IF i > Len(cards) \/ Malformed(cards[i]) THEN dom
  ELSE createAllCardsFrom(createCard(dom, cards[i]), cards, i + 1)

createAllCards(dom, cards) == createAllCardsFrom(dom, cards, 1)

\* a forEach over the cards that reads position.x throws
Throws(cards) == \E i \in 1..Len(cards) : Malformed(cards[i])

\* getRandomPosition with the two Math.random() draws r1, r2 (eighths)
getRandomPosition(vp, r1, r2) ==
  << (r1 * Px(vp[1] - CardWidth)) \div 8,
     (r2 * Px(vp[2] - CardMaxHeight)) \div 8 + Px(RandomTopMargin) >>

\* elements no longer reachable from the document, the drag state or a timer
Collect(els, kids, drag, tms) ==
  LET live == Range(kids) \cup {drag.draggedCard}
              \cup UNION {tms[i].els : i \in 1..Len(tms)}
  IN [h \in DOMAIN els \cap live |-> els[h]]

\* the variables of a variant that is not running
NoLayerApp ==
  /\ appConfig = [cards |-> <<>>, maxZIndex |-> 0]
  /\ dragState = IdleDrag
  /\ elements = <<>>
  /\ body = <<>>
  /\ timers = <<>>
  /\ localStorage = EmptyStorage
  /\ allocated = [values |-> <<>>, beforeReset |-> 0, duringDrag |-> FALSE]
  /\ lastRelease = NoRelease
  /\ lastMove = NoMove
  /\ retired = {}
  /\ frames = <<>>
  /\ resizeInstalled = FALSE

NoGridApp ==
  /\ CONFIG = [cardData |-> <<>>]
  /\ gridDragState = [isDragging |-> FALSE]
  /\ gridElements = <<>>
  /\ gridOrder = <<>>
  /\ dropTargets = {}
  /\ lastDrop = [card |-> 0]
  /\ frames = <<>>

Init ==
  /\ NoGridApp
  /\ appConfig = InitialConfig
  /\ dragState = IdleDrag
  /\ LET dom == createAllCards([els |-> <<>>, kids |-> <<>>], DefaultCards)
     IN elements = dom.els /\ body = dom.kids
  /\ timers = <<>>
  /\ localStorage = EmptyStorage
  /\ viewport = InitialViewport
  /\ now = SeedCount + 1
  /\ allocated = [values |-> <<>>, beforeReset |-> 0, duringDrag |-> FALSE]
  /\ lastRelease = NoRelease
  /\ lastMove = NoMove
  /\ retired = {}
  /\ resizeInstalled = TRUE
  /\ budget = [events |-> 0, failures |-> 0, uncaught |-> 0]

\* bringCardToFront with the counter read but never written back
bringCardToFrontKeepCounter(cfg, els, kids, cardId) ==
  LET i == FindIndex(cfg.cards, cardId)
      z == cfg.maxZIndex + 1
      el == getElementById(els, kids, cardId)
  IN IF i = 0 THEN [cfg |-> cfg, els |-> els, issued |-> <<>>]
     ELSE [cfg |-> [cfg EXCEPT !.cards[i].zIndex = z],
           els |-> IF el = NoElement THEN els ELSE [els EXCEPT ![el].zIndex = z],
           issued |-> <<z>>]

\* bringCardToFront with the counter incremented before the record is looked up
bringCardToFrontCountFirst(cfg, els, kids, cardId) ==
  LET i == FindIndex(cfg.cards, cardId)
      z == cfg.maxZIndex + 1
      el == getElementById(els, kids, cardId)
  IN IF i = 0 THEN [cfg |-> [cfg EXCEPT !.maxZIndex = z], els |-> els, issued |-> <<z>>]
     ELSE [cfg |-> [cards |-> [cfg.cards EXCEPT ![i].zIndex = z], maxZIndex |-> z],
           els |-> IF el = NoElement THEN els ELSE [els EXCEPT ![el].zIndex = z],
           issued |-> <<z>>]

\* bringCardToFront: the card's record and its element get ++maxZIndex
bringCardToFront(cfg, els, kids, cardId) ==
  LET i == FindIndex(cfg.cards, cardId)
      z == cfg.maxZIndex + 1
      el == getElementById(els, kids, cardId)
  IN IF i = 0 THEN [cfg |-> cfg, els |-> els, issued |-> <<>>]
     ELSE [cfg |-> [cards |-> [cfg.cards EXCEPT ![i].zIndex = z], maxZIndex |-> z],
           els |-> IF el = NoElement THEN els ELSE [els EXCEPT ![el].zIndex = z],
           issued |-> <<z>>]

\* attached elements of the cards the user touches
Touchable == {h \in Range(body) : elements[h].id \in TouchedSeeds \cup AddedIds}

\* startDrag without the test of event.target: a press on the remove button
\* starts a drag like any other press
startDragAnyTarget(e, onRemoveButton) ==
  /\ e \in Touchable
  /\ \E grab \in GrabOffsets :
       LET r == bringCardToFront(appConfig, elements, body, elements[e].id)
       IN /\ Event
          /\ appConfig' = r.cfg
          /\ dragState' = [isDragging |-> TRUE, draggedCard |-> e, mouseOffset |-> grab]
          /\ elements' = Collect(r.els, body, dragState', timers)
          /\ allocated' = [allocated EXCEPT !.values = @ \o r.issued, !.duringDrag = FALSE]
          /\ lastMove' = NoMove
          /\ UNCHANGED <<body, timers, localStorage, viewport, now, lastRelease, gridVars>>

\* startDrag: mousedown on the attached card element e, on its remove button
\* or elsewhere
startDrag(e, onRemoveButton) ==
  /\ e \in Touchable
  /\ IF onRemoveButton THEN NoEffect
     ELSE \E grab \in GrabOffsets :
          LET r == bringCardToFront(appConfig, elements, body, elements[e].id)
          IN /\ Event
             /\ appConfig' = r.cfg
             /\ dragState' = [isDragging |-> TRUE, draggedCard |-> e, mouseOffset |-> grab]
             /\ elements' = Collect(r.els, body, dragState', timers)
             /\ allocated' = [allocated EXCEPT !.values = @ \o r.issued, !.duringDrag = FALSE]
             /\ lastMove' = NoMove
             /\ UNCHANGED <<body, timers, localStorage, viewport, now, lastRelease, gridVars>>

\* the style.left / style.top handleDrag writes for a pointer at p
dragPosition(p, offset) == <<p[1] - offset[1], p[2] - offset[2]>>

\* handleDrag that also writes the position into the card's record
handleDragWriting(p) ==
  IF ~dragState.isDragging \/ dragState.draggedCard = NoElement THEN NoEffect
  ELSE /\ Event
       /\ elements' = [elements EXCEPT
                         ![dragState.draggedCard].left = dragPosition(p, dragState.mouseOffset)[1],
                         ![dragState.draggedCard].top = dragPosition(p, dragState.mouseOffset)[2]]
       /\ LET i == FindIndex(appConfig.cards, elements[dragState.draggedCard].id)
          IN appConfig' = IF i = 0 THEN appConfig
                          ELSE [appConfig EXCEPT
                                  !.cards[i].position = dragPosition(p, dragState.mouseOffset)]
       /\ lastMove' = [moved |-> TRUE, p |-> p, resized |-> FALSE]
       /\ UNCHANGED <<dragState, body, timers, localStorage, viewport, now, allocated, lastRelease, gridVars>>

\* handleDrag that puts the card's corner under the pointer
handleDragNoOffset(p) ==
  IF ~dragState.isDragging \/ dragState.draggedCard = NoElement THEN NoEffect
  ELSE /\ Event
       /\ elements' = [elements EXCEPT ![dragState.draggedCard].left = p[1],
                                       ![dragState.draggedCard].top = p[2]]
       /\ lastMove' = [moved |-> TRUE, p |-> p, resized |-> FALSE]
       /\ UNCHANGED <<appConfig, dragState, body, timers, localStorage, viewport, now, allocated, lastRelease, gridVars>>

\* handleDrag: mousemove at pointer p
handleDrag(p) ==
  IF ~dragState.isDragging \/ dragState.draggedCard = NoElement THEN NoEffect
  ELSE /\ Event
       /\ elements' = [elements EXCEPT
                         ![dragState.draggedCard].left = dragPosition(p, dragState.mouseOffset)[1],
                         ![dragState.draggedCard].top = dragPosition(p, dragState.mouseOffset)[2]]
       /\ lastMove' = [moved |-> TRUE, p |-> p, resized |-> FALSE]
       /\ UNCHANGED <<appConfig, dragState, body, timers, localStorage, viewport, now, allocated, lastRelease, gridVars>>

\* updateCardPosition: the record takes the pixel position read back from the element
updateCardPosition(cfg, card) ==
  LET i == FindIndex(cfg.cards, card.id)
  IN IF i = 0 THEN cfg
     ELSE [cfg EXCEPT !.cards[i].position = <<parseInt(card.left), parseInt(card.top)>>]

\* stopDrag returning before the dragState reset when the store has no
\* record of the dragged card
stopDragFoundOnly(writeOk) ==
  /\ appConfig' = updateCardPosition(appConfig, elements[dragState.draggedCard])
  /\ dragState' = IF FindIndex(appConfig.cards, elements[dragState.draggedCard].id) = 0
                  THEN dragState ELSE IdleDrag
  /\ elements' = Collect(elements, body, dragState', timers)
  /\ UNCHANGED <<body, timers, viewport, now, allocated, gridVars>>

\* what stopDrag does to the page and the script's data: the position
\* update before the save, the dragState reset after it
stopDragInMemory(writeOk) ==
  /\ appConfig' = updateCardPosition(appConfig, elements[dragState.draggedCard])
  /\ dragState' = IF saveToStorage(localStorage, appConfig', now, writeOk).thrown
                  THEN dragState ELSE IdleDrag
  /\ elements' = Collect(elements, body, dragState', timers)
  /\ UNCHANGED <<body, timers, viewport, now, allocated, gridVars>>

\* stopDrag calling saveToStorage before its test of dragState
stopDragSavingFirst ==
  IF ~dragState.isDragging \/ dragState.draggedCard = NoElement
  THEN \E writeOk \in BOOLEAN :
       /\ SavingEvent(writeOk)
       /\ localStorage' = saveToStorage(localStorage, appConfig, now, writeOk).store
       /\ UNCHANGED <<appConfig, dragState, elements, body, timers, viewport, now, allocated,
                      lastRelease, lastMove, gridVars>>
  ELSE \E writeOk \in BOOLEAN :
       /\ SavingEvent(writeOk)
       /\ stopDragInMemory(writeOk)
       /\ localStorage' = saveToStorage(localStorage, appConfig', now, writeOk).store
       /\ lastRelease' = [card |-> elements[dragState.draggedCard].id,
                          inStore |-> FindIndex(appConfig.cards,
                                                elements[dragState.draggedCard].id) # 0,
                          saved |-> writeOk]
       /\ lastMove' = NoMove

\* stopDrag: mouseup
stopDrag ==
  IF ~dragState.isDragging \/ dragState.draggedCard = NoElement THEN NoEffect
  ELSE \E writeOk \in BOOLEAN :
       /\ SavingEvent(writeOk)
       /\ stopDragInMemory(writeOk)
       /\ localStorage' = saveToStorage(localStorage, appConfig', now, writeOk).store
       /\ lastRelease' = [card |-> elements[dragState.draggedCard].id,
                          inStore |-> FindIndex(appConfig.cards,
                                                elements[dragState.draggedCard].id) # 0,
                          saved |-> writeOk]
       /\ lastMove' = NoMove

\* the ids of the records of a store, and the ids a change of the store
\* takes out of it
IdSet(cfg) == {cfg.cards[i].id : i \in 1..Len(cfg.cards)}

Left(before, after) == IdSet(before) \ IdSet(after)

\* Array.prototype.splice(i, 1)
Splice(s, i) == [k \in 1..(Len(s) - 1) |-> IF k < i THEN s[k] ELSE s[k + 1]]

\* the data half of removeCard: findIndex, then splice when found
removeFromData(cfg, cardId) ==
  LET i == FindIndex(cfg.cards, cardId)
  IN IF i = 0 THEN cfg ELSE [cfg EXCEPT !.cards = Splice(@, i)]

\* what removeCard does to the page and the script's data, before the save
removeCardInMemory(e) ==
  LET cardId == elements[e].id
      cardElement == getElementById(elements, body, cardId)
  IN /\ timers' = Append(timers, [kind |-> "remove", els |-> {cardElement}, delay |-> RemoveDelay])
     /\ appConfig' = removeFromData(appConfig, cardId)
     /\ retired' = retired \cup Left(appConfig, appConfig')
     /\ UNCHANGED <<dragState, elements, body, viewport, now, allocated, lastRelease, lastMove,
                    CONFIG, gridDragState, gridElements, gridOrder, dropTargets, lastDrop,
                    frames, resizeInstalled>>

\* removeCard(cardId): click on the remove button of the attached element e
removeCard(e, writeOk) ==
  /\ e \in Touchable
  /\ Len(timers) < MaxTimers
  /\ SavingEvent(writeOk)
  /\ removeCardInMemory(e)
  /\ localStorage' = saveToStorage(localStorage, appConfig', now, writeOk).store

\* the record built by showAddCardDialog at time t
newCardData(cfg, t, title, content, pos) ==
  [id |-> t, title |-> title, content |-> content, position |-> pos,
   zIndex |-> cfg.maxZIndex + 1]

\* the push without the pre-increment's write to appConfig.maxZIndex
addToDataKeepCounter(cfg, card) ==
  [cards |-> Append(cfg.cards, card), maxZIndex |-> cfg.maxZIndex]

\* the new record put in front of the others (unshift instead of push)
addToDataUnshift(cfg, card) ==
  [cards |-> <<card>> \o cfg.cards, maxZIndex |-> card.zIndex]

\* ++appConfig.maxZIndex and appConfig.cards.push(newCardData)
addToData(cfg, card) ==
  [cards |-> Append(cfg.cards, card), maxZIndex |-> card.zIndex]

\* what showAddCardDialog does to the page and the script's data once both
\* prompts are answered, before the save
addCardInMemory(title, content, t, r1, r2) ==
  LET card == newCardData(appConfig, t, title.text, content.text,
                          getRandomPosition(viewport, r1, r2))
      dom == createCard([els |-> elements, kids |-> body], card)
  IN /\ now' = t
     /\ appConfig' = addToData(appConfig, card)
     /\ elements' = dom.els
     /\ body' = dom.kids
     /\ allocated' = [allocated EXCEPT !.values = Append(@, card.zIndex)]
     /\ UNCHANGED <<dragState, timers, viewport, lastRelease, lastMove, gridVars>>

\* showAddCardDialog without the test of the second prompt's result
showAddCardDialogAnyContent(title) ==
  IF Falsy(title) THEN NoEffect
  ELSE \E content \in PromptResults, t \in Timestamps, r1, r2 \in Randoms, writeOk \in BOOLEAN :
       /\ Len(appConfig.cards) < MaxCards
       /\ SavingEvent(writeOk)
       /\ t >= now
       /\ addCardInMemory(title, content, t, r1, r2)
       /\ localStorage' = saveToStorage(localStorage, appConfig', t, writeOk).store

\* showAddCardDialog: the two prompts, then the new card; t is what Date.now()
\* returns, no earlier than its last value, r1 and r2 the Math.random() draws
showAddCardDialog(title) ==
  IF Falsy(title) THEN NoEffect
  ELSE \E content \in PromptResults :
       IF Falsy(content) THEN NoEffect
       ELSE \E t \in Timestamps, r1, r2 \in Randoms, writeOk \in BOOLEAN :
            /\ Len(appConfig.cards) < MaxCards
            /\ SavingEvent(writeOk)
            /\ t >= now
            /\ addCardInMemory(title, content, t, r1, r2)
            /\ localStorage' = saveToStorage(localStorage, appConfig', t, writeOk).store

\* resetWorkspace: the confirm, the exit animation of every card on the page
\* (their removal timers share one delay and one registration instant, and are
\* kept as one entry) and the delayed reset
resetWorkspace(confirmed) ==
  IF ~confirmed THEN NoEffect
  ELSE /\ Len(timers) + 2 <= MaxTimers
       /\ Event
       /\ timers' = timers \o << [kind |-> "remove", els |-> Range(body), delay |-> RemoveDelay],
                                 [kind |-> "reset", els |-> {}, delay |-> ResetDelay] >>
       /\ UNCHANGED <<appConfig, dragState, elements, body, localStorage, viewport, now,
                      allocated, lastRelease, lastMove, gridVars>>

\* the seed records written by the delayed reset, rnd the Math.random() draws
resetCards(vp, rnd) ==
  [i \in 1..SeedCount |->
     [DefaultCards[i] EXCEPT !.position = getRandomPosition(vp, rnd[i][1], rnd[i][2])]]

\* the delayed reset leaving the counter one above the seed layers
resetDataCounterAhead(vp, rnd) == [cards |-> resetCards(vp, rnd), maxZIndex |-> SeedCount + 1]

resetData(vp, rnd) == [cards |-> resetCards(vp, rnd), maxZIndex |-> 4]

\* a timer may run once every timer registered before it with a delay no
\* longer than its own has run
Due(i) == i \in 1..Len(timers) /\ \A j \in 1..(i - 1) : timers[j].delay > timers[i].delay

\* setTimeout callback of removeCard / resetWorkspace: element.remove()
fireRemove(i) ==
  /\ Due(i)
  /\ timers[i].kind = "remove"
  /\ Event
  /\ timers' = Splice(timers, i)
  /\ body' = SelectSeq(body, LAMBDA h : h \notin timers[i].els)
  /\ elements' = Collect(elements, body', dragState, timers')
  /\ UNCHANGED <<appConfig, dragState, localStorage, viewport, now, allocated, lastRelease,
                 lastMove, gridVars>>

\* what the delayed reset does to the page and the script's data, before
\* the save
fireResetInMemory(i, rnd) ==
  /\ timers' = Splice(timers, i)
  /\ appConfig' = resetData(viewport, rnd)
  /\ LET dom == createAllCards([els |-> elements, kids |-> body], appConfig'.cards)
     IN /\ body' = dom.kids
        /\ elements' = Collect(dom.els, body', dragState, timers')
  /\ allocated' = [allocated EXCEPT !.beforeReset = Len(allocated.values),
                                   !.duringDrag = dragState.isDragging]
  /\ retired' = retired \cup Left(appConfig, appConfig')
  /\ UNCHANGED <<dragState, viewport, now, lastRelease, lastMove, CONFIG, gridDragState,
                 gridElements, gridOrder, dropTargets, lastDrop, frames, resizeInstalled>>

\* setTimeout callback of resetWorkspace: seed data, new elements, save
fireReset(i, rnd, writeOk) ==
  /\ Due(i)
  /\ timers[i].kind = "reset"
  /\ SavingEvent(writeOk)
  /\ fireResetInMemory(i, rnd)
  /\ localStorage' = saveToStorage(localStorage, appConfig', now, writeOk).store

\* the clamp handleWindowResize applies to one record
clampCard(card, vp) ==
  LET maxX == Px(vp[1] - CardWidth)
      maxY == Px(vp[2] - CardMaxHeight)
  IN [card EXCEPT !.position = << IF @[1] > maxX THEN maxX ELSE @[1],
                                  IF @[2] > maxY THEN maxY ELSE @[2] >>]

\* the forEach of handleWindowResize from record i on: clamp, then restyle
\* the element document.getElementById finds; the loop ends at a record
\* without a position, whose read throws
RECURSIVE resizeFrom(_, _, _, _, _)
resizeFrom(cards, els, kids, vp, i) ==
  IF i > Len(cards) \/ Malformed(cards[i]) THEN [cards |-> cards, els |-> els]
  ELSE LET c == clampCard(cards[i], vp)
           el == getElementById(els, kids, c.id)
       IN resizeFrom([cards EXCEPT ![i] = c],
                     IF el = NoElement THEN els
                     ELSE [els EXCEPT ![el].left = c.position[1], ![el].top = c.position[2]],
                     kids, vp, i + 1)

\* what handleWindowResize does to the page and the script's data, before
\* the save
resizeInMemory(vp) ==
  /\ viewport' = vp
  /\ LET r == resizeFrom(appConfig.cards, elements, body, vp, 1)
     IN /\ appConfig' = [appConfig EXCEPT !.cards = r.cards]
        /\ elements' = r.els
  /\ lastMove' = [lastMove EXCEPT !.resized = lastMove.moved]
  /\ UNCHANGED <<dragState, body, timers, now, allocated, lastRelease, gridVars>>

\* handleWindowResize: the window now has size vp; an exception of the
\* forEach leaves the handler before saveToStorage
handleWindowResize(vp, writeOk) ==
  /\ resizeInstalled
  /\ vp # viewport
  /\ IF Throws(appConfig.cards)
     THEN /\ writeOk
          /\ budget.events < MaxEvents
          /\ budget' = [budget EXCEPT !.events = @ + 1, !.uncaught = @ + 1]
          /\ resizeInMemory(vp)
          /\ localStorage' = localStorage
     ELSE /\ SavingEvent(writeOk)
          /\ resizeInMemory(vp)
          /\ localStorage' = saveToStorage(localStorage, appConfig', now, writeOk).store

\* initializeApp on a reloaded page: the script's initial appConfig and
\* dragState, no card element, no pending timer; loadFromStorage, which
\* rebuilds the cards when it adopts the saved ones; then the default cards
\* when the page shows none, then the resize listener; an exception of that
\* second createAllCards leaves initializeApp before the listener is added
initializeApp ==
  /\ budget.events < MaxEvents
  /\ LET loaded == loadFromStorage(InitialConfig, localStorage)
         page == [els |-> <<>>, kids |-> <<>>]
         dom == IF loaded.adopted THEN createAllCards(page, loaded.cfg.cards) ELSE page
         \* the createAllCards of initializeApp itself is in no try block
         thrown == Len(dom.kids) = 0 /\ Throws(loaded.cfg.cards)
     IN /\ appConfig' = loaded.cfg
        /\ IF Len(dom.kids) = 0
           THEN LET again == createAllCards(dom, loaded.cfg.cards)
                IN elements' = again.els /\ body' = again.kids
           ELSE elements' = dom.els /\ body' = dom.kids
        /\ resizeInstalled' = ~thrown
        /\ budget' = [budget EXCEPT !.events = @ + 1,
                                    !.uncaught = @ + (IF thrown THEN 1 ELSE 0)]
  /\ dragState' = IdleDrag
  /\ timers' = <<>>
  /\ allocated' = [values |-> <<>>, beforeReset |-> 0, duringDrag |-> FALSE]
  /\ lastRelease' = NoRelease
  /\ lastMove' = NoMove
  /\ retired' = {}
  /\ UNCHANGED <<localStorage, viewport, now, CONFIG, gridDragState, gridElements, gridOrder,
                 dropTargets, lastDrop, frames>>

Next ==
  \/ initializeApp
  \/ \E e \in DOMAIN elements, b \in BOOLEAN : startDrag(e, b)
  \/ \E p \in Points : handleDrag(p)
  \/ stopDrag
  \/ \E e \in DOMAIN elements, ok \in BOOLEAN : removeCard(e, ok)
  \/ \E t \in PromptResults : showAddCardDialog(t)
  \/ \E c \in BOOLEAN : resetWorkspace(c)
  \/ \E i \in 1..Len(timers) : fireRemove(i)
  \/ \E i \in 1..Len(timers), rnd \in [1..SeedCount -> Randoms \X Randoms], ok \in BOOLEAN :
       fireReset(i, rnd, ok)
  \/ \E vp \in Viewports, ok \in BOOLEAN : handleWindowResize(vp, ok)

Spec == Init /\ [][Next]_vars

\* ------------------------------------------------- start from a stored item
\* what the "cardWorkspace" item may hold when the page is opened: nothing,
\* text that is not JSON, an object without the key cards, an object whose
\* cards is a string, the item a previous visit saved, the item saved after
\* every card was removed, and items whose cards hold a record without the
\* key position: alone, and after a complete record
NoPositionCard == [id |-> 7, title |-> "X", content |-> "X", position |-> MissingPosition,
                   zIndex |-> 7]

StoredItems ==
  { EmptyStorage,
    [present |-> TRUE, text |-> [kind |-> "garbage"]],
    [present |-> TRUE,
     text |-> [kind |-> "object", cards |-> Undefined,
               maxZIndex |-> stringifyNumber(7, 1), timestamp |-> stringifyNumber(1, 1)]],
    [present |-> TRUE,
     text |-> [kind |-> "object", cards |-> stringifyString("X"),
               maxZIndex |-> stringifyNumber(7, 1), timestamp |-> stringifyNumber(1, 1)]],
    saveToStorage(EmptyStorage, InitialConfig, 1, TRUE).store,
    saveToStorage(EmptyStorage, [cards |-> <<>>, maxZIndex |-> 4], 1, TRUE).store,
    saveToStorage(EmptyStorage, [cards |-> <<NoPositionCard>>, maxZIndex |-> 7], 1, TRUE).store,
    saveToStorage(EmptyStorage, [cards |-> <<DefaultCards[1], NoPositionCard>>, maxZIndex |-> 7],
                  1, TRUE).store }

\* the script has run, DOMContentLoaded has not been delivered yet
Booting == budget.events = 0 /\ body = <<>>

LoadInit ==
  /\ NoGridApp
  /\ appConfig = InitialConfig
  /\ dragState = IdleDrag
  /\ elements = <<>>
  /\ body = <<>>
  /\ timers = <<>>
  /\ localStorage \in StoredItems
  /\ viewport = InitialViewport
  /\ now = SeedCount + 1
  /\ allocated = [values |-> <<>>, beforeReset |-> 0, duringDrag |-> FALSE]
  /\ lastRelease = NoRelease
  /\ lastMove = NoMove
  /\ retired = {}
  /\ resizeInstalled = FALSE
  /\ budget = [events |-> 0, failures |-> 0, uncaught |-> 0]

\* the listeners are installed by initializeApp: no handler runs before it
LoadNext ==
  \/ Booting /\ initializeApp
  \/ ~Booting /\ initializeApp
  \/ ~Booting /\ \E e \in DOMAIN elements, b \in BOOLEAN : startDrag(e, b)
  \/ ~Booting /\ \E p \in Points : handleDrag(p)
  \/ ~Booting /\ stopDrag
  \/ ~Booting /\ \E e \in DOMAIN elements, ok \in BOOLEAN : removeCard(e, ok)
  \/ ~Booting /\ \E t \in PromptResults : showAddCardDialog(t)
  \/ ~Booting /\ \E c \in BOOLEAN : resetWorkspace(c)
  \/ ~Booting /\ \E i \in 1..Len(timers) : fireRemove(i)
  \/ ~Booting /\ \E i \in 1..Len(timers), rnd \in [1..SeedCount -> Randoms \X Randoms],
                    ok \in BOOLEAN : fireReset(i, rnd, ok)
  \/ ~Booting /\ \E vp \in Viewports, ok \in BOOLEAN : handleWindowResize(vp, ok)

LoadSpec == LoadInit /\ [][LoadNext]_vars

\* =================================================================
\* Properties of the layered variant
\* =================================================================
\* C1: after any sequence of add-card and remove operations no two cards of
\* the store have the same id
C1_UniqueIds ==
  \A i, j \in 1..Len(appConfig.cards) :
     i # j => appConfig.cards[i].id # appConfig.cards[j].id

\* C9 as stated: every value handed out by ++maxZIndex (for a new card, for
\* a press) is strictly greater than every value handed out before it, over
\* the whole run
C9_StrictlyIncreasingForever ==
  \A i, j \in 1..Len(allocated.values) :
     i < j => allocated.values[i] < allocated.values[j]

\* C9 amended: every value handed out by ++maxZIndex is strictly greater than
\* every value handed out before it since the last completed reset
C9_StrictlyIncreasingSinceReset ==
  \A i, j \in (allocated.beforeReset + 1)..Len(allocated.values) :
     i < j => allocated.values[i] < allocated.values[j]

\* a value was handed out after a reset that followed earlier hand-outs
C9_AllocatedAfterReset ==
  /\ allocated.beforeReset > 0
  /\ Len(allocated.values) > allocated.beforeReset

\* what C10 asserts of a step that brings the card with index i to the front
BroughtToFront(i) ==
  /\ Len(appConfig'.cards) = Len(appConfig.cards)
  /\ appConfig'.cards[i].zIndex = appConfig.maxZIndex + 1
  /\ appConfig'.maxZIndex = appConfig.maxZIndex + 1
  /\ \A j \in 1..Len(appConfig.cards) :
        j # i => /\ appConfig'.cards[j].zIndex = appConfig.cards[j].zIndex
                 /\ appConfig'.cards[j].zIndex < appConfig'.cards[i].zIndex

\* C10: the bring-to-front of a press on a card of the store sets the card's
\* layer to the previous counter + 1, strictly above every other card's layer,
\* sets the counter to that value and leaves every other card's layer unchanged
C10_BringToFront ==
  [][\A e \in DOMAIN elements :
        (startDrag(e, FALSE) /\ FindIndex(appConfig.cards, elements[e].id) # 0)
           => BroughtToFront(FindIndex(appConfig.cards, elements[e].id))]_vars

\* a card of the store pressed after another press or add: it holds the
\* counter's value, above the other cards
C10_Pressed ==
  /\ dragState.isDragging
  /\ dragState.draggedCard \in DOMAIN elements
  /\ appConfig.maxZIndex > SeedCount + 1
  /\ \E i \in 1..Len(appConfig.cards) :
        /\ appConfig.cards[i].id = elements[dragState.draggedCard].id
        /\ appConfig.cards[i].zIndex = appConfig.maxZIndex
        /\ \A j \in 1..Len(appConfig.cards) :
              j # i => appConfig.cards[j].zIndex < appConfig.maxZIndex

\* C11: saving the snapshot of any reachable state and loading what was
\* written gives back a store equal to the saved one: the same cards in the
\* same order, with their ids, titles, contents, placements and layers, and
\* the same layer counter
C11_RoundTrip ==
  LET written == saveToStorage(localStorage, appConfig, now, TRUE).store
      loaded == loadFromStorage(InitialConfig, written)
  IN /\ loaded.adopted
     /\ loaded.cfg = appConfig

\* a reloaded page (nothing handed out yet) shows what it read from the item:
\* a card that was added, at its fractional random position
C11_LoadedSavedCard ==
  /\ allocated.values = <<>>
  /\ localStorage.present
  /\ appConfig = loadFromStorage(InitialConfig, localStorage).cfg
  /\ \E i \in 1..Len(appConfig.cards) :
        /\ appConfig.cards[i].id \in AddedIds
        /\ appConfig.cards[i].position[1] % Scale # 0

\* the item parses to an object that has no sequence under the key cards
WrongShape(item) ==
  /\ item.present
  /\ item.text.kind = "object"
  /\ item.text.cards.kind # "array"

\* the page shows exactly the default cards, in their order
ShowsDefaultCards(els, kids) ==
  /\ Len(kids) = SeedCount
  /\ \A i \in 1..SeedCount :
        /\ els[kids[i]].id = DefaultCards[i].id
        /\ els[kids[i]].left = DefaultCards[i].position[1]
        /\ els[kids[i]].top = DefaultCards[i].position[2]

\* C12: when the stored item parses but has no card sequence under the
\* expected key (the key is missing, or its value is not a sequence), the
\* initialisation adopts nothing from it: the store holds exactly the four
\* default seed cards and the default counter, and the page shows them
C12_WrongShapeFallsBack ==
  [][(initializeApp /\ WrongShape(localStorage))
        => /\ appConfig' = InitialConfig
           /\ ShowsDefaultCards(elements', body')]_vars

\* a page opened on an item of the wrong shape, showing the default cards
C12_StartedOnWrongShape ==
  /\ budget.events = 1
  /\ WrongShape(localStorage)
  /\ appConfig = InitialConfig
  /\ ShowsDefaultCards(elements, body)

\* the storage write of the step threw
WriteFailed == budget'.failures = budget.failures + 1

\* C13: for each operation that saves (add, remove, drag release, resize,
\* the delayed reset), a step whose storage write fails leaves the cards, the
\* layer counter, the drag state, the page and the timers exactly as the same
\* step with a successful write does, and no exception leaves the handler
C13_FailedWriteSameResult ==
  [][WriteFailed =>
       /\ budget'.uncaught = budget.uncaught
       /\ stopDrag => stopDragInMemory(TRUE)
       /\ \A e \in DOMAIN elements : removeCard(e, FALSE) => removeCardInMemory(e)
       /\ \A title \in PromptResults :
             showAddCardDialog(title)
                => \E content \in PromptResults, t \in Timestamps, r1, r2 \in Randoms :
                      addCardInMemory(title, content, t, r1, r2)
       /\ \A i \in 1..Len(timers), rnd \in [1..SeedCount -> Randoms \X Randoms] :
             fireReset(i, rnd, FALSE) => fireResetInMemory(i, rnd)
       /\ \A vp \in Viewports : handleWindowResize(vp, FALSE) => resizeInMemory(vp)
       /\ \/ stopDrag
          \/ \E e \in DOMAIN elements : removeCard(e, FALSE)
          \/ \E title \in PromptResults : showAddCardDialog(title)
          \/ \E i \in 1..Len(timers), rnd \in [1..SeedCount -> Randoms \X Randoms] :
                fireReset(i, rnd, FALSE)
          \/ \E vp \in Viewports : handleWindowResize(vp, FALSE)]_vars

\* a release whose save failed: the position the card was dragged to is in
\* the store, the drag state is idle, and the item was never written
C13_ReleasedWithoutSaving ==
  /\ budget.failures > 0
  /\ ~localStorage.present
  /\ ~dragState.isDragging
  /\ \E i \in 1..Len(appConfig.cards) :
        appConfig.cards[i].position = dragPosition(<<Px(10), Px(20)>>, <<Px(40), Px(30)>>)

\* the stored item decodes to the cards and the layer counter of cfg
StoredEquals(item, cfg) ==
  /\ item.present
  /\ loadFromStorage(InitialConfig, item) = [adopted |-> TRUE, cfg |-> cfg]

\* C14: after every operation that changes the snapshot (create, remove,
\* bring-to-front at press, placement update at release, resize, reset) and
\* whose write, if any, succeeds, the stored item is a serialization of the
\* cards and the layer counter now in memory
C14_WriteThrough ==
  [][(appConfig' # appConfig /\ ~WriteFailed /\ ~initializeApp)
        => StoredEquals(localStorage', appConfig')]_vars

\* C15: a release received while dragging leaves the controller idle with no
\* dragged card, also when the dragged card's record was removed from the
\* store during the drag and when the save fails
C15_ReleaseIdles ==
  [][(dragState.isDragging /\ dragState.draggedCard # NoElement /\ stopDrag)
        => dragState' = IdleDrag]_vars

\* the last release ended the drag of a card the store no longer held, and
\* its save failed; the controller is idle
C15_ReleasedRemovedCard ==
  /\ lastRelease.card # 0
  /\ ~lastRelease.inStore
  /\ ~lastRelease.saved
  /\ dragState = IdleDrag

\* the layer of every card of the store, in store order
Layers(cfg) == [i \in 1..Len(cfg.cards) |-> cfg.cards[i].zIndex]

\* C16: a press received while the controller is already dragging is
\* ignored: the session keeps the card and the offset of the first press, and
\* no card's layer changes
C16_SecondPressIgnored ==
  [][\A e \in DOMAIN elements :
        (dragState.isDragging /\ startDrag(e, FALSE))
           => /\ dragState' = dragState
              /\ Layers(appConfig') = Layers(appConfig)]_vars

\* C17: a press that originates on a card's remove button leaves the
\* controller as it was (idle when it was idle) and changes no card's layer
\* and not the layer counter
C17_RemoveButtonPress ==
  [][\A e \in DOMAIN elements :
        startDrag(e, TRUE)
           => /\ dragState' = dragState
              /\ Layers(appConfig') = Layers(appConfig)
              /\ appConfig'.maxZIndex = appConfig.maxZIndex]_vars

\* the remove button of a card was pressed and clicked on a fresh page: the
\* card's removal is pending, the controller is idle, and no layer was handed
\* out
C17_RemoveClicked ==
  /\ dragState = IdleDrag
  /\ lastRelease = NoRelease
  /\ allocated.values = <<>>
  /\ appConfig.maxZIndex = InitialConfig.maxZIndex
  /\ Len(appConfig.cards) = SeedCount - 1
  /\ Layers(appConfig) = <<2, 3, 4>>
  /\ \E i \in 1..Len(timers) : timers[i].kind = "remove" /\ Cardinality(timers[i].els) = 1

\* the stored placement of every card, in store order
Placements(cfg) == [i \in 1..Len(cfg.cards) |-> <<cfg.cards[i].id, cfg.cards[i].position>>]

\* the step is a press or a move
PressOrMove ==
  \/ \E e \in DOMAIN elements : startDrag(e, FALSE)
  \/ \E p \in Points : handleDrag(p)

\* the step is one of the operations that write placements of cards already
\* in the store
WritesPlacements ==
  \/ stopDrag
  \/ \E vp \in Viewports, ok \in BOOLEAN : handleWindowResize(vp, ok)
  \/ \E i \in 1..Len(timers), rnd \in [1..SeedCount -> Randoms \X Randoms], ok \in BOOLEAN :
        fireReset(i, rnd, ok)
  \/ initializeApp

\* C19: press and move events never change a card's stored placement, and a
\* move writes nothing to the storage; outside a release, a resize, a reset
\* and a load, every card of the store keeps the placement it had (a card
\* just added, the last of the sequence, has the one it was created with)
C19_PlacementsWrittenAtRelease ==
  [][/\ Placements(appConfig') = Placements(appConfig) \/ ~PressOrMove
     /\ localStorage' = localStorage \/ ~(\E p \in Points : handleDrag(p))
     /\ \/ \A j \in 1..Len(appConfig'.cards) :
              \/ \E i \in 1..Len(appConfig.cards) :
                    Placements(appConfig')[j] = Placements(appConfig)[i]
              \/ j = Len(appConfig.cards) + 1
        \/ WritesPlacements]_vars

\* in the middle of a drag: the dragged card is displayed away from its
\* stored placement, and nothing was saved
C19_MovedNotStored ==
  /\ dragState.isDragging
  /\ dragState.draggedCard \in DOMAIN elements
  /\ ~localStorage.present
  /\ \E i \in 1..Len(appConfig.cards) :
        /\ appConfig.cards[i].id = elements[dragState.draggedCard].id
        /\ appConfig.cards[i].position = InitialConfig.cards[1].position
        /\ elements[dragState.draggedCard].left # appConfig.cards[i].position[1]

\* the store holds exactly the four seed cards card-1 .. card-4, in that
\* order, with layers 1 .. 4, and the layer counter is 4
SeedStore(cfg) ==
  /\ Len(cfg.cards) = SeedCount
  /\ \A i \in 1..SeedCount :
        /\ cfg.cards[i].id = i
        /\ cfg.cards[i].zIndex = i
  /\ cfg.maxZIndex = SeedCount

\* the step is the delayed callback of a confirmed reset
ResetCompletes ==
  \E i \in 1..Len(timers), rnd \in [1..SeedCount -> Randoms \X Randoms], ok \in BOOLEAN :
     fireReset(i, rnd, ok)

\* C20: when a confirmed reset completes, the store holds exactly the four
\* seed cards card-1 .. card-4 in that order with layers 1 .. 4 and the
\* layer counter is 4, whatever the state was before and whatever was added,
\* removed or pressed between the confirmation and the completion
C20_ResetRestoresSeeds ==
  [][SeedStore(appConfig') \/ ~ResetCompletes]_vars

\* a reset has just completed after layers were handed out, and a card added
\* between the confirmation and the completion is still on the page: the
\* store holds the seeds only
C20_ResetAfterInterleavedAdd ==
  /\ allocated.beforeReset > 0
  /\ allocated.beforeReset = Len(allocated.values)
  /\ timers = <<>>
  /\ SeedStore(appConfig)
  /\ \E i \in 1..Len(body) : elements[body[i]].id \in AddedIds

\* the card sequence without the records that carry the id
WithoutId(cards, cardId) == SelectSeq(cards, LAMBDA c : c.id # cardId)

\* C21: remove(id) deletes the card with that id and leaves every other
\* card, its fields, the relative order and the layer counter unchanged;
\* when no card has the id, the card sequence and the counter are unchanged
\* and no error is raised
C21_RemoveById ==
  [][\A e \in Touchable :
       \/ /\ appConfig'.cards = WithoutId(appConfig.cards, elements[e].id)
          /\ appConfig'.maxZIndex = appConfig.maxZIndex
          /\ budget'.uncaught = budget.uncaught
       \/ ~(\E writeOk \in BOOLEAN : removeCard(e, writeOk))]_vars

\* the same statement for stores whose ids are all different
C21_RemoveByIdWhenUnique ==
  [][\A e \in Touchable :
       \/ ~C1_UniqueIds
       \/ /\ appConfig'.cards = WithoutId(appConfig.cards, elements[e].id)
          /\ appConfig'.maxZIndex = appConfig.maxZIndex
          /\ budget'.uncaught = budget.uncaught
       \/ ~(\E writeOk \in BOOLEAN : removeCard(e, writeOk))]_vars

\* the step leaves the card sequence, the layer counter and the stored item
\* as they were
StoreAndBlobUnchanged == appConfig' = appConfig /\ localStorage' = localStorage

\* the step appended one record whose title and content are non-empty texts
AppendedFilledCard ==
  /\ Len(appConfig'.cards) = Len(appConfig.cards) + 1
  /\ appConfig'.cards[Len(appConfig'.cards)].title # ""
  /\ appConfig'.cards[Len(appConfig'.cards)].content # ""

\* C22: an add-card request whose title or content is cancelled or empty, and
\* a reset request that is not confirmed, leave the card sequence, the layer
\* counter and the stored item unchanged: a request with such a title changes
\* nothing, a request that changes anything has appended a card with a
\* non-empty title and a non-empty content, and a declined reset changes
\* nothing
C22_DeclinedRequests ==
  [][\/ StoreAndBlobUnchanged
     \/ /\ \A title \in PromptResults :
             \/ ~Falsy(title) /\ AppendedFilledCard
             \/ ~showAddCardDialog(title)
        /\ ~resetWorkspace(FALSE)]_vars

\* a saved workspace with an added card in which a further add-card or reset
\* request can be made and declined; the declined request ends in this state
C22_DeclinedOnSavedWorkspace ==
  /\ budget.events < MaxEvents
  /\ localStorage.present
  /\ Len(appConfig.cards) > SeedCount
  /\ StoredEquals(localStorage, appConfig)
  /\ ENABLED resetWorkspace(FALSE)

\* loadFromStorage reads the item and fails: the text does not parse, the
\* decoded value has no sequence of cards, or building the cards from the
\* decoded records throws
LoadFails(item) ==
  /\ item.present
  /\ \/ item.text.kind # "object"
     \/ item.text.cards.kind # "array"
     \/ Throws(recordsOf(item.text.cards))

\* C26: when load fails after reading the item (text that does not parse, a
\* wrong shape, or an error raised while the decoded records are adopted), the
\* store in memory afterwards equals the seed defaults and holds no card taken
\* from the item
C26_FailedLoadFallsBack ==
  [][(initializeApp /\ LoadFails(localStorage)) => appConfig' = InitialConfig]_vars

\* C27: whatever the stored item holds (nothing, text that does not parse, a
\* wrong shape, or a sequence with a malformed card record), initializeApp
\* runs to its end: no exception leaves it and its resize listener is
\* installed
C27_InitializationCompletes ==
  [][initializeApp => (resizeInstalled' /\ budget'.uncaught = budget.uncaught)]_vars

\* the same for items that hold no malformed card record
C27_InitializationCompletesOnSound ==
  [][(initializeApp /\ ~(localStorage.present /\ localStorage.text.kind = "object"
                         /\ localStorage.text.cards.kind = "array"
                         /\ Throws(recordsOf(localStorage.text.cards))))
       => (resizeInstalled' /\ budget'.uncaught = budget.uncaught)]_vars

\* every record of the later store whose id the earlier store knows has a
\* record of that id before it whose layer is not higher, and the counter
\* is not lower
LayersNotDecreased(before, after) ==
  /\ after.maxZIndex >= before.maxZIndex
  /\ \A i \in 1..Len(after.cards) :
        FindIndex(before.cards, after.cards[i].id) # 0
        => \E j \in 1..Len(before.cards) :
              /\ before.cards[j].id = after.cards[i].id
              /\ before.cards[j].zIndex <= after.cards[i].zIndex

\* C28: across any operation other than a full reset (a load of the stored
\* item included) no card that remains in the store has its layer decreased,
\* and the layer counter does not decrease
C28_LayersNeverDecrease ==
  [][LayersNotDecreased(appConfig, appConfig') \/ ResetCompletes]_vars

\* the same for the operations of one page view: every step but the reset
\* and the load of a reloaded page
C28_LayersNeverDecreaseWithoutLoad ==
  [][LayersNotDecreased(appConfig, appConfig') \/ ResetCompletes \/ initializeApp]_vars

\* the store has no record with the id of the element
Gone(e) == FindIndex(appConfig.cards, elements[e].id) = 0

\* the step leaves the cards and the counter as they were and no exception
\* leaves the handler
StoreUntouched == appConfig' = appConfig /\ budget'.uncaught = budget.uncaught

\* C29: a press (bring-to-front) and a release (placement update) for a card
\* whose id is no longer in the store are no-ops on the store: no card is
\* added or changed, the layer counter is unchanged, and no error is raised
C29_LookupMissIsNoOp ==
  [][\/ StoreUntouched
     \/ /\ \A e \in DOMAIN elements : ~Gone(e) \/ ~startDrag(e, FALSE)
        /\ \/ ~dragState.isDragging
           \/ dragState.draggedCard = NoElement
           \/ ~Gone(dragState.draggedCard)
           \/ ~stopDrag]_vars

\* a card was removed, then its element, still on the page, was pressed and
\* released: the drag is over, no layer was handed out, and the store holds
\* the other cards with the counter it started with
C29_PressedAndReleasedRemovedCard ==
  /\ lastRelease.card # 0
  /\ ~lastRelease.inStore
  /\ dragState = IdleDrag
  /\ allocated.values = <<>>
  /\ appConfig.maxZIndex = InitialConfig.maxZIndex
  /\ Layers(appConfig) = <<2, 3, 4>>

\* style.left, style.top of an element
TopLeft(el) == <<el.left, el.top>>

\* C30: while dragging, after each move(p) the dragged card's displayed
\* top-left is p - (p0 - b0), p0 being the pointer position at the press and
\* b0 the card's top-left at the press.  The press leaves the card at b0 and
\* records p0 - b0 (the pointer's offset inside the card) as mouseOffset;
\* every move to p puts the card at p - mouseOffset and keeps mouseOffset, so
\* a move to p0 = b0 + mouseOffset puts it at b0
C30_MoveFollowsPointer ==
  [][/\ \A e \in DOMAIN elements :
          \/ /\ e \in DOMAIN elements'
             /\ TopLeft(elements'[e]) = TopLeft(elements[e])
             /\ dragState'.isDragging
             /\ dragState'.draggedCard = e
             /\ dragState'.mouseOffset \in GrabOffsets
          \/ ~startDrag(e, FALSE)
     /\ \A p \in Points :
          \/ /\ dragState.isDragging
             /\ dragState' = dragState
             /\ dragState.draggedCard \in DOMAIN elements'
             /\ TopLeft(elements'[dragState.draggedCard])
                  = <<p[1] - dragState.mouseOffset[1], p[2] - dragState.mouseOffset[2]>>
          \/ ~dragState.isDragging
          \/ dragState.draggedCard = NoElement
          \/ ~handleDrag(p)]_vars

\* a drag in progress, three events into the run: the card's top-left is the
\* pointer's last position minus the offset recorded at the press, left of
\* the window's edge
C30_CardFollowedPointer ==
  /\ dragState.isDragging
  /\ dragState.draggedCard \in DOMAIN elements
  /\ budget.events = 3
  /\ allocated.values # <<>>
  /\ TopLeft(elements[dragState.draggedCard])
       = <<Px(10) - dragState.mouseOffset[1], Px(20) - dragState.mouseOffset[2]>>
  /\ elements[dragState.draggedCard].left < 0

\* the step is an add-card request
AddRequest == \E title \in PromptResults : showAddCardDialog(title)

\* C31: an add-card request that creates a card gives the new card the layer
\* counter + 1, sets the counter to that value, and appends the card at the
\* end of the sequence: the records that were there are unchanged and in the
\* same order
C31_CreateAppends ==
  [][\/ /\ Len(appConfig'.cards) = Len(appConfig.cards) + 1
        /\ SubSeq(appConfig'.cards, 1, Len(appConfig.cards)) = appConfig.cards
        /\ appConfig'.cards[Len(appConfig'.cards)].zIndex = appConfig.maxZIndex + 1
        /\ appConfig'.maxZIndex = appConfig.maxZIndex + 1
     \/ ~AddRequest]_vars

\* a card was added after a press had raised the counter to 5: it is the
\* last record, on layer 6, the counter is 6, and the four seed records
\* precede it in their order
C31_AddedAfterPress ==
  /\ Len(appConfig.cards) = SeedCount + 1
  /\ [i \in 1..SeedCount |-> appConfig.cards[i].id] = <<1, 2, 3, 4>>
  /\ appConfig.cards[1].zIndex = 5
  /\ appConfig.cards[SeedCount + 1].id \in AddedIds
  /\ appConfig.cards[SeedCount + 1].zIndex = 6
  /\ appConfig.maxZIndex = 6

\* the store holds a record with the id
HasId(cardId) == FindIndex(appConfig.cards, cardId) # 0

\* C32 (reuse): an id that belonged to a card removed from the store is never
\* the id of a card that enters the store later: no id that left the store
\* since the page was loaded is the id of a card of the store
C32_IdsNeverReused == \A cardId \in retired : ~HasId(cardId)

\* the store starts with the four seed ids, so a seed id the store lacks
\* has left it: outside a load of the stored item no step brings such an id
\* back
C32_SeedIdsStayOut ==
  [][\/ \A i \in 1..Len(appConfig'.cards) :
          appConfig'.cards[i].id \in 1..SeedCount => HasId(appConfig'.cards[i].id)
     \/ initializeApp]_vars

\* the same, outside a load and a completed reset
C32_SeedIdsStayOutWithoutReset ==
  [][\/ \A i \in 1..Len(appConfig'.cards) :
          appConfig'.cards[i].id \in 1..SeedCount => HasId(appConfig'.cards[i].id)
     \/ ResetCompletes
     \/ initializeApp]_vars

\* the ids of the store, in the order of the records
Ids(cfg) == [i \in 1..Len(cfg.cards) |-> cfg.cards[i].id]

\* C32 (stability): no operation changes the id of a card that is in the
\* store: outside a completed reset and a load, which replace the whole
\* sequence, the ids after a step are those before it with at most one
\* taken out or one appended
C32_IdsStable ==
  [][\/ Ids(appConfig') = Ids(appConfig)
     \/ \E i \in 1..Len(appConfig.cards) : Ids(appConfig') = Splice(Ids(appConfig), i)
     \/ /\ Len(appConfig'.cards) = Len(appConfig.cards) + 1
        /\ SubSeq(Ids(appConfig'), 1, Len(appConfig.cards)) = Ids(appConfig)
     \/ ResetCompletes
     \/ initializeApp]_vars

\* C33: in every reachable state every card's layer is at most the layer
\* counter, and no two cards of the store have the same layer
C33_LayersBoundedAndDistinct ==
  /\ \A i \in 1..Len(appConfig.cards) : appConfig.cards[i].zIndex <= appConfig.maxZIndex
  /\ \A i, j \in 1..Len(appConfig.cards) :
        i # j => appConfig.cards[i].zIndex # appConfig.cards[j].zIndex

\* a reloaded page that adopted a stored snapshot written after a press and
\* an add: the counter is above the seed count, a seed card and the added
\* card are on raised layers, and the top layer is the counter
C33_LoadedRaisedLayers ==
  /\ budget.events > 0
  /\ allocated.values = <<>>
  /\ dragState = IdleDrag
  /\ Len(appConfig.cards) = SeedCount + 1
  /\ appConfig.cards[1].zIndex = 5
  /\ appConfig.cards[SeedCount + 1].zIndex = 6
  /\ appConfig.maxZIndex = 6

\* no setTimeout callback is pending and no drag is in progress
Settled == timers = <<>> /\ ~dragState.isDragging

\* the records of the store with the id, and the card elements of the page
\* with the id
RecordsOf(cardId) == {i \in 1..Len(appConfig.cards) : appConfig.cards[i].id = cardId}

ElementsOf(cardId) == {k \in 1..Len(body) : elements[body[k]].id = cardId}

\* every card of the store has exactly one element on the page (as many
\* elements as records, for an id that several records share)
EveryCardShown ==
  \A i \in 1..Len(appConfig.cards) :
     Cardinality(ElementsOf(appConfig.cards[i].id))
       = Cardinality(RecordsOf(appConfig.cards[i].id))

\* every card element of the page belongs to a card of the store
EveryElementStored == \A k \in 1..Len(body) : HasId(elements[body[k]].id)

\* C34: whenever no removal or reset timer is pending and no drag is in
\* progress, the card elements of the page correspond one-to-one with the
\* cards of the store
C34_VisualsMatchStore == Settled => (EveryCardShown /\ EveryElementStored)

\* the first half alone: every card of the store is shown exactly once
C34_EveryCardShown == Settled => EveryCardShown

\* the second half alone: no element without a card in the store
C34_EveryElementStored == Settled => EveryElementStored

\* the step is the release of a drag that a press began before the last
\* completed reset ran
ReleaseAcrossReset == dragState.isDragging /\ allocated.duringDrag /\ stopDrag

\* C35: a release that ends a drag begun before a confirmed reset completed
\* does not change the placement of any card of the reset store
C35_ReleaseAfterResetKeepsPlacements ==
  [][Placements(appConfig') = Placements(appConfig) \/ ~ReleaseAcrossReset]_vars

\* the same for the drag of a card that is not a seed card
C35_ReleaseAfterResetKeepsPlacementsOfAdded ==
  [][\/ Placements(appConfig') = Placements(appConfig)
     \/ dragState.draggedCard \notin DOMAIN elements
     \/ elements[dragState.draggedCard].id \in 1..SeedCount
     \/ ~ReleaseAcrossReset]_vars

\* the position updateCardPosition stores for a card whose corner a move to
\* p put at p - offset: that point, in whole pixels
MovedTo(p, offset) == <<parseInt(dragPosition(p, offset)[1]), parseInt(dragPosition(p, offset)[2])>>

\* the stored position of the card the dragged element stands for
StoredPositionOfDragged(cfg) ==
  cfg.cards[FindIndex(cfg.cards, elements[dragState.draggedCard].id)].position

\* the step is the release of a drag of a card of the store whose last move
\* was followed by a resize (by no resize)
ReleaseAfterMove(resized) ==
  /\ lastMove.moved
  /\ lastMove.resized = resized
  /\ dragState.isDragging
  /\ dragState.draggedCard \in DOMAIN elements
  /\ ~Gone(dragState.draggedCard)
  /\ stopDrag

\* C36: when a resize occurs between a move and the release of the same
\* drag, the placement stored at the release is still the last move's
\* pointer position minus the press offset
C36_ResizeDuringDrag ==
  [][\/ ~lastMove.resized
     \/ ~ReleaseAfterMove(TRUE)
     \/ StoredPositionOfDragged(appConfig') = MovedTo(lastMove.p, dragState.mouseOffset)]_vars

\* the same release with no resize since the last move
C36_ReleaseWithoutResize ==
  [][\/ ~lastMove.moved
     \/ ~ReleaseAfterMove(FALSE)
     \/ StoredPositionOfDragged(appConfig') = MovedTo(lastMove.p, dragState.mouseOffset)]_vars

\* the step is a move or a release
MoveOrRelease == (\E p \in Points : handleDrag(p)) \/ stopDrag

\* C37: a move or a release received while the controller is idle changes
\* nothing: the drag session, every card, the layer counter and the stored
\* item are as before; so a move or release that changes any of them, or
\* anything else, was received during a drag
C37_IdleMoveAndReleaseChangeNothing ==
  [][\/ dragState.isDragging
     \/ /\ dragState' = dragState
        /\ appConfig' = appConfig
        /\ localStorage' = localStorage
        /\ elements' = elements
        /\ budget' = budget
     \/ ~MoveOrRelease]_vars

\* the controller is idle after a completed drag whose release was saved,
\* and the run goes on: a move and a release can be received here, and
\* leave this state as it is
C37_IdleAfterSavedDrag ==
  /\ dragState = IdleDrag
  /\ lastRelease.card # 0
  /\ lastRelease.saved
  /\ localStorage.present
  /\ budget.events < MaxEvents
  /\ ENABLED stopDrag
  /\ \A p \in Points : ENABLED handleDrag(p)

\* the stored item is a snapshot whose card sequence is empty
EmptySnapshotStored ==
  /\ localStorage.present
  /\ localStorage.text.kind = "object"
  /\ localStorage.text.cards.kind = "array"
  /\ Len(localStorage.text.cards.items) = 0

\* C38: loading a saved snapshot whose card sequence is empty leaves the
\* store empty after initialisation, and the four seed cards are not
\* re-created: the page shows no card
C38_EmptySnapshotStaysEmpty ==
  [][\/ appConfig'.cards = <<>> /\ body' = <<>> /\ resizeInstalled'
     \/ ~EmptySnapshotStored
     \/ ~initializeApp]_vars

\* the page was opened on an empty snapshot and initializeApp has run: no
\* card in the store, none on the page, the stored counter adopted
C38_OpenedOnEmptySnapshot ==
  /\ budget.events = 1
  /\ EmptySnapshotStored
  /\ appConfig = [cards |-> <<>>, maxZIndex |-> 4]
  /\ body = <<>>
  /\ elements = <<>>
  /\ resizeInstalled

\* =================================================================
\* The grid-snapping variant (CONFIG.gridSize, lines 1552-2314)
\* =================================================================
GridRows == 2
GridCols == 2
GridCardWidth == 300
GridCardHeight == 200

Cells == (0..(GridRows - 1)) \X (0..(GridCols - 1))

\* parentElement of a card that is no grid cell
BodyParent == <<0 - 1, 0 - 1>>
Detached == <<0 - 2, 0 - 2>>

\* parseInt(undefined)
NaN == 0 - 9
NoPosition == <<>>

\* getBoundingClientRect of the element cell-<row>-<col>; the page lays the
\* cells out in rows and columns with a gap between them
CellRect(cell) ==
  [left |-> Px(100 + 300 * cell[2]), right |-> Px(100 + 300 * cell[2] + 290),
   top |-> Px(100 + 200 * cell[1]), bottom |-> Px(100 + 200 * cell[1] + 190)]

\* pointer positions of the grid variant's mouseup events: inside cell-0-0,
\* inside cell-0-1, and left of the grid
GridPoints == {<<Px(245), Px(195)>>, <<Px(545), Px(195)>>, <<Px(20), Px(500)>>}

\* pointer positions of its mousemove events: inside cell-0-1 and left of
\* the grid
GridMovePoints == {<<Px(545), Px(195)>>, <<Px(20), Px(500)>>}

\* the cells in document order
CellOrder == << <<0, 0>>, <<0, 1>>, <<1, 0>>, <<1, 1>> >>

Inside(p, rect) ==
  /\ p[1] >= rect.left
  /\ p[1] <= rect.right
  /\ p[2] >= rect.top
  /\ p[2] <= rect.bottom

\* findGridCellUnderMouse: the first cell whose rectangle holds the point,
\* NoPosition when none does
findGridCellUnderMouse(p) ==
  IF \E k \in 1..Len(CellOrder) : Inside(p, CellRect(CellOrder[k]))
  THEN CellOrder[SetMin({k \in 1..Len(CellOrder) : Inside(p, CellRect(CellOrder[k]))})]
  ELSE NoPosition

\* children of a parent, in child order
ChildrenOf(els, order, parent) == SelectSeq(order, LAMBDA h : els[h].parent = parent)

RECURSIVE Concat(_, _)
Concat(seqs, k) == IF k > Len(seqs) THEN <<>> ELSE seqs[k] \o Concat(seqs, k + 1)

\* the attached card elements in document order: the grid precedes the
\* cards appended to body
DocumentOrder(els, order) ==
  Concat([k \in 1..Len(CellOrder) |-> ChildrenOf(els, order, CellOrder[k])], 1)
    \o ChildrenOf(els, order, BodyParent)

gridGetElementById(els, order, cardId) ==
  LET doc == DocumentOrder(els, order)
  IN IF \E k \in 1..Len(doc) : els[doc[k]].id = cardId
     THEN doc[SetMin({k \in 1..Len(doc) : els[doc[k]].id = cardId})]
     ELSE NoElement

\* parent.appendChild(h): h becomes the last child of parent
appendChild(dom, h, parent) ==
  [els |-> [dom.els EXCEPT ![h].parent = parent],
   order |-> SelectSeq(dom.order, LAMBDA x : x # h) \o <<h>>]

\* getBoundingClientRect of a card: a free-positioned card sits at its style
\* position, a card in a cell sits inside the cell, and a card left in body
\* without the class free-position is laid out in the page flow
BoundingRect(el) ==
  IF el.parent \in Cells
  THEN <<CellRect(el.parent).left + Px(5), CellRect(el.parent).top + Px(5)>>
  ELSE IF el.free /\ el.style # NoPosition THEN el.style
  ELSE <<Px(8), Px(620)>>

\* createSingleCard and positionCardFreely
gridCreateFreeCard(dom, cardData) ==
  LET h == NewHandle(dom.els)
      el == [id |-> cardData.id, parent |-> BodyParent, dragging |-> FALSE,
             free |-> TRUE, style |-> cardData.freePosition]
  IN [els |-> [x \in DOMAIN dom.els \cup {h} |-> IF x = h THEN el ELSE dom.els[x]],
      order |-> Append(dom.order, h)]

\* createSingleCard and positionCardInGrid
gridCreateCellCard(dom, cardData) ==
  LET h == NewHandle(dom.els)
      el == [id |-> cardData.id, dragging |-> FALSE, free |-> FALSE, style |-> NoPosition,
             parent |-> IF cardData.position \in Cells THEN cardData.position ELSE Detached]
  IN [els |-> [x \in DOMAIN dom.els \cup {h} |-> IF x = h THEN el ELSE dom.els[x]],
      order |-> IF cardData.position \in Cells THEN Append(dom.order, h) ELSE dom.order]

\* positionCard applied to a new element
positionCard(dom, cardData) ==
  IF cardData.freePosition # NoPosition THEN gridCreateFreeCard(dom, cardData)
  ELSE IF cardData.position # NoPosition THEN gridCreateCellCard(dom, cardData)
  ELSE dom

RECURSIVE gridCreateAllCardsFrom(_, _, _)
gridCreateAllCardsFrom(dom, cardData, i) ==
  IF i > Len(cardData) THEN dom
  ELSE gridCreateAllCardsFrom(positionCard(dom, cardData[i]), cardData, i + 1)

gridCreateAllCards(dom, cardData) == gridCreateAllCardsFrom(dom, cardData, 1)

\* the freePosition of a seed card, from two Math.random() draws (eighths)
seedFreePosition(vp, r1, r2) ==
  << (r1 * Px(vp[1] - 500)) \div 8, (r2 * Px(vp[2] - 500)) \div 8 + Px(100) >>

\* the freePosition of an added or re-scattered card
gridRandomPosition(vp, r1, r2) ==
  << (r1 * Px(vp[1] - 300)) \div 8, (r2 * Px(vp[2] - 200)) \div 8 + Px(100) >>

GridSeedTitles == <<"How to Use?", "What matters now?", "Idea in progress!", "Looped Thought!">>

gridSeedData(vp, rnd) ==
  [i \in 1..SeedCount |->
     [id |-> i, title |-> GridSeedTitles[i], content |-> "seed", position |-> NoPosition,
      freePosition |-> seedFreePosition(vp, rnd[i][1], rnd[i][2])]]

GridIdleDrag ==
  [isDragging |-> FALSE, draggedCard |-> NoElement, startPosition |-> NoPosition,
   offset |-> <<0, 0>>, originalParent |-> Detached, wasInGrid |-> FALSE]

NoDrop == [card |-> 0, origin |-> Detached, target |-> NoPosition, existing |-> 0,
           before |-> <<>>, after |-> <<>>]

\* elements still attached or held by the drag state
gridCollect(els, order, drag) ==
  [h \in DOMAIN els \cap (Range(order) \cup {drag.draggedCard}) |-> els[h]]

GridInit ==
  /\ NoLayerApp
  /\ viewport = InitialViewport
  /\ now = SeedCount + 1
  /\ budget = [events |-> 0, failures |-> 0, uncaught |-> 0]
  /\ \E rnd \in [1..SeedCount -> Randoms \X Randoms] :
        /\ CONFIG = [cardData |-> gridSeedData(InitialViewport, rnd)]
        /\ LET dom == gridCreateAllCards([els |-> <<>>, order |-> <<>>], CONFIG.cardData)
           IN gridElements = dom.els /\ gridOrder = dom.order
  /\ gridDragState = GridIdleDrag
  /\ dropTargets = {}
  /\ lastDrop = NoDrop

\* convertCardToFreePosition: styled at its bounding box and moved to body
convertCardToFreePosition(dom, h, cardRect) ==
  appendChild([dom EXCEPT !.els[h].free = TRUE, !.els[h].style = cardRect], h, BodyParent)

\* attached elements of the cards the user presses
GridTouchable == {h \in Range(gridOrder) : gridElements[h].id \in GridTouchedSeeds \cup AddedIds}

\* a press that records the drag but leaves the card where it is: no
\* convertCardToFreePosition, no class dragging
startDraggingInPlace(e, grab) ==
  /\ e \in GridTouchable
  /\ GridEvent
  /\ LET cardRect == BoundingRect(gridElements[e])
     IN gridDragState' =
          [isDragging |-> TRUE, draggedCard |-> e,
           startPosition |-> <<cardRect[1] + grab[1], cardRect[2] + grab[2]>>,
           offset |-> grab,
           originalParent |-> gridElements[e].parent,
           wasInGrid |-> gridElements[e].parent \in Cells]
  /\ gridElements' = gridCollect(gridElements, gridOrder, gridDragState')
  /\ UNCHANGED <<CONFIG, gridOrder, dropTargets, lastDrop, viewport, now, layerVars>>

\* startDragging: mousedown on the attached card element e
startDragging(e, grab) ==
  /\ e \in GridTouchable
  /\ GridEvent
  /\ LET cardRect == BoundingRect(gridElements[e])
         dom == convertCardToFreePosition([els |-> gridElements, order |-> gridOrder], e, cardRect)
     IN /\ gridDragState' =
             [isDragging |-> TRUE, draggedCard |-> e,
              startPosition |-> <<cardRect[1] + grab[1], cardRect[2] + grab[2]>>,
              offset |-> grab,
              originalParent |-> gridElements[e].parent,
              wasInGrid |-> gridElements[e].parent \in Cells]
        /\ gridOrder' = dom.order
        /\ gridElements' = gridCollect([dom.els EXCEPT ![e].dragging = TRUE], gridOrder', gridDragState')
  /\ UNCHANGED <<CONFIG, dropTargets, lastDrop, viewport, now, layerVars>>

\* showDropTargetFeedback: the cells highlighted afterwards
showDropTargetFeedback(p) ==
  IF findGridCellUnderMouse(p) = NoPosition THEN {} ELSE {findGridCellUnderMouse(p)}

\* handleMouseMovement: mousemove at pointer p
handleMouseMovement(p) ==
  IF ~gridDragState.isDragging \/ gridDragState.draggedCard = NoElement THEN GridNoEffect
  ELSE /\ GridEvent
       /\ gridElements' = [gridElements EXCEPT ![gridDragState.draggedCard].style =
                              dragPosition(p, gridDragState.offset)]
       /\ dropTargets' = showDropTargetFeedback(p)
       /\ UNCHANGED <<CONFIG, gridDragState, gridOrder, lastDrop, viewport, now, layerVars>>

\* updateCardDataPosition that writes the new tag and leaves the other one
updateCardDataPositionOneField(cardData, cardId, gridPosition, freePosition) ==
  LET i == FindIndex(cardData, cardId)
  IN IF i = 0 THEN cardData
     ELSE IF gridPosition # NoPosition
     THEN [cardData EXCEPT ![i].position = gridPosition]
     ELSE [cardData EXCEPT ![i].freePosition = freePosition]

\* updateCardDataPosition(card, gridPosition, freePosition), a null argument
\* being NoPosition
updateCardDataPosition(cardData, cardId, gridPosition, freePosition) ==
  LET i == FindIndex(cardData, cardId)
  IN IF i = 0 THEN cardData
     ELSE IF gridPosition # NoPosition
     THEN [cardData EXCEPT ![i].position = gridPosition, ![i].freePosition = NoPosition]
     ELSE [cardData EXCEPT ![i].position = NoPosition, ![i].freePosition = freePosition]

\* targetCell.dataset.row / col read through parseInt; body carries neither
datasetPosition(parent) == IF parent \in Cells THEN parent ELSE <<NaN, NaN>>

\* moveCardToGridCell(card, targetCell) on the state st = [els, order, cardData]
moveCardToGridCell(st, h, targetCell) ==
  LET dom == appendChild([els |-> [st.els EXCEPT ![h].free = FALSE, ![h].style = NoPosition],
                          order |-> st.order], h, targetCell)
  IN [els |-> dom.els, order |-> dom.order,
      cardData |-> updateCardDataPosition(st.cardData, st.els[h].id,
                                          datasetPosition(targetCell), NoPosition)]

\* swapCardPositions(card1, card2); when card1 has no parentElement the
\* second move throws at targetCell.dataset, after restyling card2
swapCardPositions(st, card1, card2) ==
  LET card1Parent == st.els[card1].parent
      card2Parent == st.els[card2].parent
      moved == moveCardToGridCell(st, card1, card2Parent)
  IN IF card1Parent = Detached
     THEN [moved EXCEPT !.els[card2].free = FALSE, !.els[card2].style = NoPosition]
     ELSE moveCardToGridCell(moved, card2, card1Parent)

\* targetCell.querySelector(".info-card:not(.dragging)")
existingCardIn(els, order, targetCell) ==
  LET kids == SelectSeq(ChildrenOf(els, order, targetCell), LAMBDA h : ~els[h].dragging)
  IN IF kids = <<>> THEN NoElement ELSE kids[1]

\* snapCardToGrid(card, targetCell)
snapCardToGrid(st, card, targetCell) ==
  LET existingCard == existingCardIn(st.els, st.order, targetCell)
  IN IF existingCard # NoElement THEN swapCardPositions(st, card, existingCard)
     ELSE moveCardToGridCell(st, card, targetCell)

\* parseInt of style.left and style.top; parseInt("") is NaN
parseStyle(style) ==
  IF style = NoPosition THEN <<NaN, NaN>> ELSE <<parseInt(style[1]), parseInt(style[2])>>

\* finalizeCardFreePosition(card)
finalizeCardFreePosition(st, card) ==
  [els |-> [st.els EXCEPT ![card].dragging = FALSE],
   order |-> st.order,
   cardData |-> updateCardDataPosition(st.cardData, st.els[card].id, NoPosition,
                                       parseStyle(st.els[card].style))]

\* stopDragging: mouseup at pointer p, then cleanupAfterDrag
stopDragging(p) ==
  IF ~gridDragState.isDragging \/ gridDragState.draggedCard = NoElement THEN GridNoEffect
  ELSE LET card == gridDragState.draggedCard
           dropTarget == findGridCellUnderMouse(p)
           st == [els |-> gridElements, order |-> gridOrder, cardData |-> CONFIG.cardData]
           r == IF dropTarget # NoPosition THEN snapCardToGrid(st, card, dropTarget)
                ELSE finalizeCardFreePosition(st, card)
           existing == IF dropTarget = NoPosition THEN NoElement
                       ELSE existingCardIn(gridElements, gridOrder, dropTarget)
           \* the TypeError of swapCardPositions ends the handler before cleanupAfterDrag
           thrown == existing # NoElement /\ gridElements[card].parent = Detached
       IN /\ GridEvent
          /\ CONFIG' = [CONFIG EXCEPT !.cardData = r.cardData]
          /\ gridDragState' = IF thrown THEN gridDragState ELSE GridIdleDrag
          /\ gridOrder' = r.order
          /\ gridElements' = gridCollect(IF thrown THEN r.els
                                         ELSE [r.els EXCEPT ![card].dragging = FALSE],
                                         gridOrder', gridDragState')
          /\ dropTargets' = IF thrown THEN dropTargets ELSE {}
          /\ lastDrop' = [card |-> gridElements[card].id,
                          origin |-> gridDragState.originalParent,
                          target |-> dropTarget,
                          existing |-> IF existing = NoElement THEN 0 ELSE gridElements[existing].id,
                          before |-> CONFIG.cardData,
                          after |-> r.cardData]
          /\ UNCHANGED <<viewport, now, layerVars>>

\* showAddCardDialog of the grid variant
gridShowAddCardDialog(title) ==
  IF Falsy(title) THEN GridNoEffect
  ELSE \E content \in PromptResults :
       IF Falsy(content) THEN GridNoEffect
       ELSE \E t \in Timestamps, r1, r2 \in Randoms :
            /\ Len(CONFIG.cardData) < MaxCards
            /\ GridEvent
            /\ t >= now
            /\ now' = t
            /\ LET added == [id |-> t, title |-> title.text, content |-> content.text,
                                   position |-> NoPosition,
                                   freePosition |-> gridRandomPosition(viewport, r1, r2)]
                   dom == positionCard([els |-> gridElements, order |-> gridOrder], added)
               IN /\ CONFIG' = [CONFIG EXCEPT !.cardData = Append(@, added)]
                  /\ gridElements' = dom.els
                  /\ gridOrder' = dom.order
            /\ UNCHANGED <<gridDragState, dropTargets, lastDrop, viewport, layerVars>>

\* resetWorkspace of the grid variant: every card re-scattered, rnd the draws
scatter(cardData, vp, rnd) ==
  [i \in 1..Len(cardData) |->
     [cardData[i] EXCEPT !.position = NoPosition,
                         !.freePosition = gridRandomPosition(vp, rnd[i][1], rnd[i][2])]]

gridResetWorkspace(rnd) ==
  /\ GridEvent
  /\ CONFIG' = [CONFIG EXCEPT !.cardData = scatter(@, viewport, rnd)]
  /\ LET all == [h \in DOMAIN gridElements |-> [gridElements[h] EXCEPT !.parent = Detached]]
         dom == gridCreateAllCards([els |-> all, order |-> <<>>], CONFIG'.cardData)
     IN /\ gridOrder' = dom.order
        /\ gridElements' = gridCollect(dom.els, gridOrder', gridDragState)
  /\ UNCHANGED <<gridDragState, dropTargets, lastDrop, viewport, now, layerVars>>

\* the clamp of the grid variant's handleWindowResize on one record
gridClampCard(card, vp) ==
  IF card.freePosition = NoPosition THEN card
  ELSE [card EXCEPT !.freePosition = <<Min(@[1], Px(vp[1] - GridCardWidth)),
                                       Min(@[2], Px(vp[2] - GridCardHeight))>>]

RECURSIVE gridResizeFrom(_, _, _, _, _)
gridResizeFrom(cardData, els, order, vp, i) ==
  IF i > Len(cardData) THEN [cardData |-> cardData, els |-> els]
  ELSE LET c == gridClampCard(cardData[i], vp)
           el == gridGetElementById(els, order, c.id)
       IN gridResizeFrom([cardData EXCEPT ![i] = c],
                         IF c.freePosition # NoPosition /\ el # NoElement /\ els[el].free
                         THEN [els EXCEPT ![el].style = c.freePosition] ELSE els,
                         order, vp, i + 1)

\* handleWindowResize of the grid variant: the window now has size vp
gridHandleWindowResize(vp) ==
  /\ vp # viewport
  /\ GridEvent
  /\ viewport' = vp
  /\ LET r == gridResizeFrom(CONFIG.cardData, gridElements, gridOrder, vp, 1)
     IN /\ CONFIG' = [CONFIG EXCEPT !.cardData = r.cardData]
        /\ gridElements' = r.els
  /\ UNCHANGED <<gridDragState, gridOrder, dropTargets, lastDrop, now, layerVars>>

GridNext ==
  \/ \E e \in DOMAIN gridElements, g \in GrabOffsets : startDragging(e, g)
  \/ \E p \in GridMovePoints : handleMouseMovement(p)
  \/ \E p \in GridPoints : stopDragging(p)
  \/ \E t \in PromptResults : gridShowAddCardDialog(t)
  \/ \E rnd \in [1..MaxCards -> Randoms \X Randoms] : gridResetWorkspace(rnd)
  \/ \E vp \in Viewports : gridHandleWindowResize(vp)

GridSpec == GridInit /\ [][GridNext]_vars

\* =================================================================
\* Properties of the grid variant
\* =================================================================
\* the stored placement of the first record with the id
Placement(cardData, cardId) ==
  [position |-> cardData[FindIndex(cardData, cardId)].position,
   freePosition |-> cardData[FindIndex(cardData, cardId)].freePosition]

GridPlacement(cell) == [position |-> cell, freePosition |-> NoPosition]

InStore(cardId) == FindIndex(CONFIG.cardData, cardId) # 0

\* a mouseup at p that ends a drag
ReleaseAt(p) ==
  /\ gridDragState.isDragging
  /\ gridDragState.draggedCard # NoElement
  /\ stopDragging(p)

\* the id of the dragged card, and of the card the cell under p holds
DraggedId == gridElements[gridDragState.draggedCard].id

OccupantOf(cell) == existingCardIn(gridElements, gridOrder, cell)

\* a mouseup at p over a cell that holds another card of the store
ReleaseOntoOccupied(p) ==
  /\ ReleaseAt(p)
  /\ findGridCellUnderMouse(p) \in Cells
  /\ OccupantOf(findGridCellUnderMouse(p)) # NoElement
  /\ gridElements[OccupantOf(findGridCellUnderMouse(p))].id # DraggedId
  /\ InStore(DraggedId)
  /\ InStore(gridElements[OccupantOf(findGridCellUnderMouse(p))].id)

NoSharedCell(cardData) ==
  \A i, j \in 1..Len(cardData) :
     (i # j /\ cardData[i].position \in Cells) => cardData[i].position # cardData[j].position

\* C2: after any release, no grid cell is the Grid placement of more than one
\* card of the store
C2_OneCardPerCell ==
  [][\A p \in GridPoints : ReleaseAt(p) => NoSharedCell(CONFIG'.cardData)]_vars

\* C3: a card dragged from cell O and released over another cell T that holds
\* card B ends with placement Grid{T}, and B ends with placement Grid{O}
C3_SwapFromGrid ==
  [][\A p \in GridPoints :
        (/\ ReleaseOntoOccupied(p)
         /\ gridDragState.originalParent \in Cells
         /\ gridDragState.originalParent # findGridCellUnderMouse(p))
        => /\ Placement(CONFIG'.cardData, DraggedId) = GridPlacement(findGridCellUnderMouse(p))
           /\ Placement(CONFIG'.cardData, gridElements[OccupantOf(findGridCellUnderMouse(p))].id)
                = GridPlacement(gridDragState.originalParent)]_vars

\* C4: a card with a Free placement released over a cell T that holds card B
\* ends with placement Grid{T}, and B ends with a Free placement and no Grid
\* placement
C4_EvictToFree ==
  [][\A p \in GridPoints :
        (/\ ReleaseOntoOccupied(p)
         /\ Placement(CONFIG.cardData, DraggedId).freePosition # NoPosition
         /\ Placement(CONFIG.cardData, DraggedId).position = NoPosition)
        => /\ Placement(CONFIG'.cardData, DraggedId) = GridPlacement(findGridCellUnderMouse(p))
           /\ LET b == Placement(CONFIG'.cardData,
                                 gridElements[OccupantOf(findGridCellUnderMouse(p))].id)
              IN b.freePosition # NoPosition /\ b.position = NoPosition]_vars

\* C5: after card A was dropped on a cell held by card B, dropping B on the
\* cell A now holds returns both cards to the placements they had before the
\* first of the two drags
C5_SwapSymmetric ==
  [][\A p \in GridPoints :
        (/\ ReleaseOntoOccupied(p)
         /\ lastDrop.card # 0
         /\ lastDrop.existing = DraggedId
         /\ lastDrop.existing # lastDrop.card
         /\ lastDrop.target = findGridCellUnderMouse(p)
         /\ gridElements[OccupantOf(findGridCellUnderMouse(p))].id = lastDrop.card
         /\ lastDrop.after = CONFIG.cardData)
        => /\ Placement(CONFIG'.cardData, lastDrop.card) = Placement(lastDrop.before, lastDrop.card)
           /\ Placement(CONFIG'.cardData, lastDrop.existing)
                = Placement(lastDrop.before, lastDrop.existing)]_vars

WithinViewport(pos, vp) ==
  /\ 0 <= pos[1]
  /\ pos[1] <= Px(vp[1] - GridCardWidth)
  /\ 0 <= pos[2]
  /\ pos[2] <= Px(vp[2] - GridCardHeight)

\* C7: after a release over no grid cell the card's stored placement is
\* Free{x,y} with 0 <= x <= viewport width - card width and
\* 0 <= y <= viewport height - card height
C7_ReleaseClamped ==
  [][\A p \in GridPoints :
        (ReleaseAt(p) /\ findGridCellUnderMouse(p) = NoPosition /\ InStore(DraggedId))
        => /\ Placement(CONFIG'.cardData, DraggedId).position = NoPosition
           /\ Placement(CONFIG'.cardData, DraggedId).freePosition # NoPosition
           /\ WithinViewport(Placement(CONFIG'.cardData, DraggedId).freePosition, viewport)]_vars

\* C8: after a resize to viewport vp every card with a Free placement lies
\* within the viewport, and every card with a Grid placement keeps it
C8_ResizeClamped ==
  [][\A vp \in Viewports :
        gridHandleWindowResize(vp)
        => /\ Len(CONFIG'.cardData) = Len(CONFIG.cardData)
           /\ \A i \in 1..Len(CONFIG.cardData) :
                 IF CONFIG.cardData[i].freePosition # NoPosition
                 THEN /\ CONFIG'.cardData[i].freePosition # NoPosition
                      /\ WithinViewport(CONFIG'.cardData[i].freePosition, vp)
                 ELSE CONFIG'.cardData[i] = CONFIG.cardData[i]]_vars

\* no record of the store has the cell as its Grid placement
NoRecordAt(cardData, cell) == \A i \in 1..Len(cardData) : cardData[i].position # cell

\* a mouseup at p over a cell that holds no card, neither on the page nor in
\* the store
ReleaseOntoEmpty(p) ==
  /\ ReleaseAt(p)
  /\ findGridCellUnderMouse(p) \in Cells
  /\ OccupantOf(findGridCellUnderMouse(p)) = NoElement
  /\ NoRecordAt(CONFIG.cardData, findGridCellUnderMouse(p))

\* C23: after a release over an empty cell T the dragged card's placement is
\* Grid{T}, and when the card came from another grid cell O no card of the
\* store has placement Grid{O}
C23_MoveToEmptyCell ==
  [][\A p \in GridPoints :
        ReleaseOntoEmpty(p)
        => /\ Placement(CONFIG'.cardData, DraggedId) = GridPlacement(findGridCellUnderMouse(p))
           /\ (/\ gridDragState.originalParent \in Cells
               /\ gridDragState.originalParent # findGridCellUnderMouse(p))
              => NoRecordAt(CONFIG'.cardData, gridDragState.originalParent)]_vars

\* C24: every card of the store whose placement is Grid{row, col} refers to
\* a registered cell, with integer row and col inside the declared grid,
\* after any sequence of drops (swaps included)
C24_GridPlacementsRegistered ==
  \A i \in 1..Len(CONFIG.cardData) :
     CONFIG.cardData[i].position # NoPosition => CONFIG.cardData[i].position \in Cells

\* the record carries exactly one placement tag: position (a grid cell) or
\* freePosition (free coordinates), the other being null
OneTag(card) == (card.position # NoPosition) # (card.freePosition # NoPosition)

\* C25: in every state outside a drag in progress each card of the store has
\* exactly one placement, free coordinates or a grid cell, never both and
\* never neither
C25_OnePlacementTag ==
  ~gridDragState.isDragging => \A i \in 1..Len(CONFIG.cardData) : OneTag(CONFIG.cardData[i])

\* the same in every state, a drag in progress included
C25_OnePlacementTagAlways ==
  \A i \in 1..Len(CONFIG.cardData) : OneTag(CONFIG.cardData[i])

\* no drag is in progress after a card was dropped on a cell held by another
\* card and a card was dropped outside the grid: the store has a record with
\* a Grid placement and a record that went from the grid to free coordinates
C25_SettledAfterDrops ==
  /\ ~gridDragState.isDragging
  /\ lastDrop.card # 0
  /\ lastDrop.target = NoPosition
  /\ lastDrop.origin \in Cells
  /\ \E i \in 1..Len(CONFIG.cardData) : CONFIG.cardData[i].position \in Cells
  /\ \E i \in 1..Len(CONFIG.cardData) :
        /\ CONFIG.cardData[i].id = lastDrop.card
        /\ CONFIG.cardData[i].freePosition # NoPosition
        /\ CONFIG.cardData[i].position = NoPosition

\* C15 in the grid variant: a release received while dragging leaves the
\* controller idle, wherever the pointer is (over a cell or over none)
C15_GridReleaseIdles ==
  [][\A p \in GridPoints : ReleaseAt(p) => gridDragState' = GridIdleDrag]_vars

\* the last release was over no cell: the drop target did not resolve
C15_GridReleasedOverNoCell ==
  /\ lastDrop.card # 0
  /\ lastDrop.target = NoPosition
  /\ gridDragState = GridIdleDrag

\* C19 in the grid variant: press and move events leave every record of
\* CONFIG.cardData (grid position and free position) as it was
C19_GridPressAndMove ==
  [][\/ CONFIG' = CONFIG
     \/ ~(\/ \E e \in DOMAIN gridElements, g \in GrabOffsets : startDragging(e, g)
          \/ \E p \in GridMovePoints : handleMouseMovement(p))]_vars

\* =================================================================
\* The freeform variant (CONFIG.cardData with freePosition, lines 665-1551)
\* It uses CONFIG, dragState, elements, body, timers, localStorage and frames.
\* =================================================================
FreeSeedMargin == 500
FreeTopMargin == 100
FreeCardWidth == 300
FreeCardHeight == 200

\* pending requestAnimationFrame callbacks
MaxFrames == 2

FreeIdleDrag == [isDragging |-> FALSE, draggedCard |-> NoElement, offset |-> <<0, 0>>]

\* the freePosition of a seed card: Math.random() * (innerWidth - 500) and
\* Math.random() * (innerHeight - 500) + 100
freeSeedPosition(vp, r1, r2) ==
  << (r1 * Px(vp[1] - FreeSeedMargin)) \div 8,
     (r2 * Px(vp[2] - FreeSeedMargin)) \div 8 + Px(FreeTopMargin) >>

\* the freePosition of an added or scattered card
freeRandomPosition(vp, r1, r2) ==
  << (r1 * Px(vp[1] - FreeCardWidth)) \div 8,
     (r2 * Px(vp[2] - FreeCardHeight)) \div 8 + Px(FreeTopMargin) >>

\* the cardData literal of CONFIG and of resetToDefault
freeSeedData(vp, rnd) ==
  [i \in 1..SeedCount |->
     [id |-> DefaultCards[i].id, title |-> DefaultCards[i].title,
      content |-> DefaultCards[i].content,
      freePosition |-> freeSeedPosition(vp, rnd[i][1], rnd[i][2])]]

\* createSingleCard and positionCard: a new element at the record's
\* freePosition, appended to body
freeCreateCard(dom, cardData) ==
  LET h == NewHandle(dom.els)
      el == [id |-> cardData.id, left |-> cardData.freePosition[1],
             top |-> cardData.freePosition[2]]
  IN [els |-> [x \in DOMAIN dom.els \cup {h} |-> IF x = h THEN el ELSE dom.els[x]],
      kids |-> Append(dom.kids, h)]

RECURSIVE freeCreateAllCardsFrom(_, _, _)
freeCreateAllCardsFrom(dom, cardData, i) ==
  IF i > Len(cardData) THEN dom
  ELSE freeCreateAllCardsFrom(freeCreateCard(dom, cardData[i]), cardData, i + 1)

freeCreateAllCards(dom, cardData) == freeCreateAllCardsFrom(dom, cardData, 1)

\* elements still reachable: attached, dragged, held by a removal timer or
\* by a pending frame callback
freeCollect(els, kids, drag, tms, frs) ==
  LET live == Range(kids) \cup {drag.draggedCard}
              \cup UNION {tms[i].els : i \in 1..Len(tms)}
              \cup {frs[i].card : i \in 1..Len(frs)}
  IN [h \in DOMAIN els \cap live |-> els[h]]

\* JSON.stringify of { cardData, timestamp }
freeJSONstringify(data) ==
  [kind |-> "object",
   cardData |-> [kind |-> "array",
                 items |-> [i \in 1..Len(data.cardData) |->
                    [kind |-> "object",
                     id |-> stringifyString(data.cardData[i].id),
                     title |-> stringifyString(data.cardData[i].title),
                     content |-> stringifyString(data.cardData[i].content),
                     freePosition |->
                       [kind |-> "object",
                        x |-> stringifyNumber(data.cardData[i].freePosition[1], Scale),
                        y |-> stringifyNumber(data.cardData[i].freePosition[2], Scale)]]]],
   timestamp |-> stringifyNumber(data.timestamp, 1)]

\* saveToLocalStorage: the item written; a write that throws is caught
saveToLocalStorage(store, cardData, t, writeOk) ==
  IF writeOk
  THEN [present |-> TRUE,
        text |-> freeJSONstringify([cardData |-> cardData, timestamp |-> t])]
  ELSE store

\* loadFromLocalStorage: the saved cardData when the item holds a sequence
\* under cardData, else the records the script has
loadFromLocalStorage(cardData, item) ==
  IF item.present /\ item.text.kind = "object" /\ item.text.cardData.kind = "array"
  THEN [adopted |-> TRUE,
        cardData |-> [i \in 1..Len(item.text.cardData.items) |->
           LET text == item.text.cardData.items[i]
           IN [id |-> parseString(text.id), title |-> parseString(text.title),
               content |-> parseString(text.content),
               freePosition |-> <<parseNumber(text.freePosition.x, Scale),
                                  parseNumber(text.freePosition.y, Scale)>>]]]
  ELSE [adopted |-> FALSE, cardData |-> cardData]

\* the variables of the other variants
NoOtherApp ==
  /\ appConfig = [cards |-> <<>>, maxZIndex |-> 0]
  /\ allocated = [values |-> <<>>, beforeReset |-> 0, duringDrag |-> FALSE]
  /\ lastRelease = NoRelease
  /\ lastMove = NoMove
  /\ retired = {}
  /\ gridDragState = [isDragging |-> FALSE]
  /\ gridElements = <<>>
  /\ gridOrder = <<>>
  /\ dropTargets = {}
  /\ lastDrop = [card |-> 0]
  /\ resizeInstalled = FALSE

\* what the freeform variant leaves alone
otherVars == <<appConfig, allocated, lastRelease, gridDragState, gridElements, gridOrder,
               dropTargets, lastDrop, resizeInstalled, lastMove, retired>>

\* initializeWorkspace on a page opened with no stored item
FreeInit ==
  /\ NoOtherApp
  /\ \E rnd \in [1..SeedCount -> Randoms \X Randoms] :
        /\ CONFIG = [cardData |-> freeSeedData(InitialViewport, rnd)]
        /\ LET dom == freeCreateAllCards([els |-> <<>>, kids |-> <<>>], CONFIG.cardData)
           IN elements = dom.els /\ body = dom.kids
  /\ dragState = FreeIdleDrag
  /\ timers = <<>>
  /\ frames = <<>>
  /\ localStorage = EmptyStorage
  /\ viewport = InitialViewport
  /\ now = SeedCount + 1
  /\ budget = [events |-> 0, failures |-> 0, uncaught |-> 0]

\* startDragging of the freeform variant: mousedown on the attached card
\* element e, on its remove button or elsewhere
freeStartDragging(e, onRemoveButton) ==
  /\ e \in Touchable
  /\ IF onRemoveButton THEN NoEffect
     ELSE \E grab \in GrabOffsets :
          /\ Event
          /\ dragState' = [isDragging |-> TRUE, draggedCard |-> e, offset |-> grab]
          /\ elements' = freeCollect(elements, body, dragState', timers, frames)
          /\ UNCHANGED <<CONFIG, body, timers, frames, localStorage, viewport, now, otherVars>>

\* handleMouseMovement of the freeform variant: mousemove at pointer p; the
\* new position is computed now and written by a requestAnimationFrame
\* callback
freeHandleMouseMovement(p) ==
  IF ~dragState.isDragging \/ dragState.draggedCard = NoElement THEN NoEffect
  ELSE /\ Len(frames) < MaxFrames
       /\ Event
       /\ frames' = Append(frames, [card |-> dragState.draggedCard,
                                    left |-> dragPosition(p, dragState.offset)[1],
                                    top |-> dragPosition(p, dragState.offset)[2]])
       /\ UNCHANGED <<CONFIG, dragState, elements, body, timers, localStorage, viewport,
                      now, otherVars>>

\* the callbacks from the i-th on, run in the order they were requested
RECURSIVE runCallbacks(_, _, _)
runCallbacks(els, frs, i) ==
  IF i > Len(frs) THEN els
  ELSE runCallbacks([els EXCEPT ![frs[i].card].left = frs[i].left,
                                ![frs[i].card].top = frs[i].top], frs, i + 1)

\* the next animation frame: every pending callback runs
animationFrame ==
  /\ frames # <<>>
  /\ Event
  /\ frames' = <<>>
  /\ elements' = freeCollect(runCallbacks(elements, frames, 1), body, dragState, timers, frames')
  /\ UNCHANGED <<CONFIG, dragState, body, timers, localStorage, viewport, now, otherVars>>

\* updateCardDataPosition of the freeform variant
freeUpdateCardDataPosition(cardData, cardId, freePosition) ==
  LET i == FindIndex(cardData, cardId)
  IN IF i = 0 THEN cardData ELSE [cardData EXCEPT ![i].freePosition = freePosition]

\* stopDragging of the freeform variant: mouseup; the record takes the
\* position read back from the element, then the save and cleanupAfterDrag
\* (the two timers that follow only animate the transform)
freeStopDragging ==
  IF ~dragState.isDragging \/ dragState.draggedCard = NoElement THEN NoEffect
  ELSE \E writeOk \in BOOLEAN :
       LET card == elements[dragState.draggedCard]
       IN /\ SavingEvent(writeOk)
          /\ CONFIG' = [cardData |-> freeUpdateCardDataPosition(CONFIG.cardData, card.id,
                                        <<parseInt(card.left), parseInt(card.top)>>)]
          /\ localStorage' = saveToLocalStorage(localStorage, CONFIG'.cardData, now, writeOk)
          /\ dragState' = FreeIdleDrag
          /\ elements' = freeCollect(elements, body, dragState', timers, frames)
          /\ UNCHANGED <<body, timers, frames, viewport, now, otherVars>>

\* removeCard of the freeform variant
freeRemoveCard(e, writeOk) ==
  /\ e \in Touchable
  /\ Len(timers) < MaxTimers
  /\ SavingEvent(writeOk)
  /\ LET cardId == elements[e].id
         cardElement == getElementById(elements, body, cardId)
         i == FindIndex(CONFIG.cardData, cardId)
     IN /\ timers' = Append(timers, [kind |-> "remove", els |-> {cardElement}, delay |-> RemoveDelay])
        /\ CONFIG' = [cardData |-> IF i = 0 THEN CONFIG.cardData ELSE Splice(CONFIG.cardData, i)]
  /\ localStorage' = saveToLocalStorage(localStorage, CONFIG'.cardData, now, writeOk)
  /\ UNCHANGED <<dragState, elements, body, frames, viewport, now, otherVars>>

\* showAddCardDialog of the freeform variant
freeShowAddCardDialog(title) ==
  IF Falsy(title) THEN NoEffect
  ELSE \E content \in PromptResults :
       IF Falsy(content) THEN NoEffect
       ELSE \E t \in Timestamps, r1, r2 \in Randoms, writeOk \in BOOLEAN :
            /\ Len(CONFIG.cardData) < MaxCards
            /\ SavingEvent(writeOk)
            /\ t >= now
            /\ now' = t
            /\ LET added == [id |-> t, title |-> title.text, content |-> content.text,
                             freePosition |-> freeRandomPosition(viewport, r1, r2)]
                   dom == freeCreateCard([els |-> elements, kids |-> body], added)
               IN /\ CONFIG' = [cardData |-> Append(CONFIG.cardData, added)]
                  /\ elements' = dom.els
                  /\ body' = dom.kids
            /\ localStorage' = saveToLocalStorage(localStorage, CONFIG'.cardData, t, writeOk)
            /\ UNCHANGED <<dragState, timers, frames, viewport, otherVars>>

\* resetToDefault: the confirm, the exit animation of every card on the page
\* and the delayed reset
resetToDefault(confirmed) ==
  IF ~confirmed THEN NoEffect
  ELSE /\ Len(timers) + 2 <= MaxTimers
       /\ Event
       /\ timers' = timers \o << [kind |-> "remove", els |-> Range(body), delay |-> RemoveDelay],
                                 [kind |-> "reset", els |-> {}, delay |-> ResetDelay] >>
       /\ UNCHANGED <<CONFIG, dragState, elements, body, frames, localStorage, viewport,
                      now, otherVars>>

\* setTimeout callback of removeCard / resetToDefault: element.remove()
freeFireRemove(i) ==
  /\ Due(i)
  /\ timers[i].kind = "remove"
  /\ Event
  /\ timers' = Splice(timers, i)
  /\ body' = SelectSeq(body, LAMBDA h : h \notin timers[i].els)
  /\ elements' = freeCollect(elements, body', dragState, timers', frames)
  /\ UNCHANGED <<CONFIG, dragState, frames, localStorage, viewport, now, otherVars>>

\* setTimeout callback of resetToDefault: seed data, new elements, save
freeFireReset(i, rnd, writeOk) ==
  /\ Due(i)
  /\ timers[i].kind = "reset"
  /\ SavingEvent(writeOk)
  /\ timers' = Splice(timers, i)
  /\ CONFIG' = [cardData |-> freeSeedData(viewport, rnd)]
  /\ LET dom == freeCreateAllCards([els |-> elements, kids |-> body], CONFIG'.cardData)
     IN /\ body' = dom.kids
        /\ elements' = freeCollect(dom.els, body', dragState, timers', frames)
  /\ localStorage' = saveToLocalStorage(localStorage, CONFIG'.cardData, now, writeOk)
  /\ UNCHANGED <<dragState, frames, viewport, now, otherVars>>

\* resetWorkspace of the freeform variant (Ctrl+R): every card element
\* removed at once, every record scattered, the elements rebuilt, the save
freeResetWorkspace(rnd, writeOk) ==
  /\ SavingEvent(writeOk)
  /\ CONFIG' = [cardData |-> [i \in 1..Len(CONFIG.cardData) |->
                   [CONFIG.cardData[i] EXCEPT
                      !.freePosition = freeRandomPosition(viewport, rnd[1], rnd[2])]]]
  /\ LET dom == freeCreateAllCards([els |-> elements, kids |-> <<>>], CONFIG'.cardData)
     IN /\ body' = dom.kids
        /\ elements' = freeCollect(dom.els, body', dragState, timers, frames)
  /\ localStorage' = saveToLocalStorage(localStorage, CONFIG'.cardData, now, writeOk)
  /\ UNCHANGED <<dragState, timers, frames, viewport, now, otherVars>>

\* the forEach of the freeform handleWindowResize from record i on
RECURSIVE freeResizeFrom(_, _, _, _, _)
freeResizeFrom(cardData, els, kids, vp, i) ==
  IF i > Len(cardData) THEN [cardData |-> cardData, els |-> els]
  ELSE LET pos == << Min(cardData[i].freePosition[1], Px(vp[1] - FreeCardWidth)),
                     Min(cardData[i].freePosition[2], Px(vp[2] - FreeCardHeight)) >>
           el == getElementById(els, kids, cardData[i].id)
       IN freeResizeFrom([cardData EXCEPT ![i].freePosition = pos],
                         IF el = NoElement THEN els
                         ELSE [els EXCEPT ![el].left = pos[1], ![el].top = pos[2]],
                         kids, vp, i + 1)

\* handleWindowResize of the freeform variant
freeHandleWindowResize(vp, writeOk) ==
  /\ vp # viewport
  /\ SavingEvent(writeOk)
  /\ viewport' = vp
  /\ LET r == freeResizeFrom(CONFIG.cardData, elements, body, vp, 1)
     IN /\ CONFIG' = [cardData |-> r.cardData]
        /\ elements' = r.els
  /\ localStorage' = saveToLocalStorage(localStorage, CONFIG'.cardData, now, writeOk)
  /\ UNCHANGED <<dragState, body, timers, frames, now, otherVars>>

\* initializeWorkspace on a reloaded page: the cards of the CONFIG literal,
\* then loadFromLocalStorage, which rebuilds them from the saved records
initializeWorkspace(rnd) ==
  /\ Event
  /\ LET loaded == loadFromLocalStorage(freeSeedData(viewport, rnd), localStorage)
         dom == freeCreateAllCards([els |-> <<>>, kids |-> <<>>], loaded.cardData)
     IN /\ CONFIG' = [cardData |-> loaded.cardData]
        /\ elements' = dom.els
        /\ body' = dom.kids
  /\ dragState' = FreeIdleDrag
  /\ timers' = <<>>
  /\ frames' = <<>>
  /\ UNCHANGED <<localStorage, viewport, now, otherVars>>

\* Ctrl+S: getWorkspaceState and saveToLocalStorage
saveShortcut(writeOk) ==
  /\ SavingEvent(writeOk)
  /\ localStorage' = saveToLocalStorage(localStorage, CONFIG.cardData, now, writeOk)
  /\ UNCHANGED <<CONFIG, dragState, elements, body, timers, frames, viewport, now, otherVars>>

FreeNext ==
  \/ \E rnd \in [1..SeedCount -> Randoms \X Randoms] : initializeWorkspace(rnd)
  \/ \E e \in DOMAIN elements, b \in BOOLEAN : freeStartDragging(e, b)
  \/ \E p \in Points : freeHandleMouseMovement(p)
  \/ animationFrame
  \/ freeStopDragging
  \/ \E e \in DOMAIN elements, ok \in BOOLEAN : freeRemoveCard(e, ok)
  \/ \E t \in PromptResults : freeShowAddCardDialog(t)
  \/ \E c \in BOOLEAN : resetToDefault(c)
  \/ \E i \in 1..Len(timers) : freeFireRemove(i)
  \/ \E i \in 1..Len(timers), rnd \in [1..SeedCount -> Randoms \X Randoms], ok \in BOOLEAN :
       freeFireReset(i, rnd, ok)
  \/ \E rnd \in Randoms \X Randoms, ok \in BOOLEAN : freeResetWorkspace(rnd, ok)
  \/ \E vp \in Viewports, ok \in BOOLEAN : freeHandleWindowResize(vp, ok)
  \/ \E ok \in BOOLEAN : saveShortcut(ok)

FreeSpec == FreeInit /\ [][FreeNext]_vars

\* =================================================================
\* Properties of the freeform variant
\* =================================================================
\* the position every attached card is displayed at, after parseInt
Displayed(els, kids) ==
  [i \in 1..Len(kids) |-> <<els[kids[i]].id, parseInt(els[kids[i]].left),
                            parseInt(els[kids[i]].top)>>]

\* C18: moves take effect in the order received and none takes effect after
\* the release that follows it: once the release has been processed no
\* pending move update changes the position a card is displayed at, which
\* stays the one the release stored
C18_ReleaseSupersedesMoves ==
  [][(~dragState.isDragging /\ animationFrame)
        => Displayed(elements', body') = Displayed(elements, body)]_vars
\* C17 in the freeform variant: a press on a card's remove button leaves the
\* drag state and the records as they were
C17_FreeRemoveButtonPress ==
  [][\A e \in DOMAIN elements :
        freeStartDragging(e, TRUE) => dragState' = dragState /\ CONFIG' = CONFIG]_vars
====
